---- MODULE Spec2Model ----
(***************************************************************************)
(* Model of the ADS data logger with operating-state recognition           *)
(* (src/data_process_gongkuang.py, class DataLoggerApp).                   *)
(*                                                                         *)
(* One action per Tk event handler: the "open port" button, the "start"    *)
(* and "stop" buttons and the timer callback realtime_monitor_loop.  The   *)
(* contents of the text fields (interval, thresholds), the outcome of the  *)
(* ADS read, the shape of the block, the two RMS features of the block and *)
(* the outcome of the file write are inputs of the cycle they are read in. *)
(* A processed block is represented by its two RMS features.               *)
(***************************************************************************)
EXTENDS Integers, Sequences, FiniteSets, TLC

\* ---------------------------------------------------------------- bounds
\* number of classified cycles explored (sample_index is unbounded in the code)
MaxCycles == 10
\* number of timer callbacks that may be pending at once
MaxPending == 2
\* largest interval typed into the field, in quarters of a millisecond
IntervalSteps == 80
\* messages written to the log widget
MaxLogWrites == 36
\* blocks the plot history caches hold (PLOT_HISTORY_LENGTH scaled down)
HistoryCycles == 2
\* calls of process_data that fill the plot history caches
MaxCacheCalls == 4
\* cycles the two monitors of the comparison run side by side
MaxTwinCycles == 5
\* longest short series of equal samples given to the RMS features
MaxCopies == 4
\* samples per channel row in the reconstruction model (SAMPLE_COUNT scaled down)
RowLen == 4
\* channels per vibration axis in the block model (VIBRATION_GROUP_SIZE scaled down)
GroupSize == 2
\* cycles of a run in which the threshold fields are edited
MaxClassify == 3
\* current samples accumulated by a run of plc_plot.py
MaxPlotPoints == 30
\* handler activations nested inside each other through log_text.update()
MaxDepth == 3

\* ------------------------------------------------------ program constants
STABILITY_CHECK_COUNT == 5
DEFAULT_IDLE_THRESHOLD == "50"
DEFAULT_VIB_THRESHOLD == "2000"
DEFAULT_INTERVAL_MS == "10"

States == {"STOP", "IDLE", "CUTTING"}

\* ------------------------------------------------------------ text fields
\* Texts a field may hold when it is read; "abc" stands for non-numeric text.
NumericTexts == {"10", "50", "2000", "2500"}
\* contents of the two threshold fields: idle threshold, vibration threshold
ThresholdTexts == {<<"50", "2000">>, <<"50", "2500">>, <<"abc", "2500">>}
IntervalTexts == {"10", "abc"}

\* float(text) / int(text): the number a numeric text denotes
float(t) ==
    CASE t = "10" -> 10
      [] t = "50" -> 50
      [] t = "2000" -> 2000
      [] t = "2500" -> 2500

\* float()/int() raise ValueError on any other text
RaisesValueError(t) == t \notin NumericTexts

\* RMS features a block may have (values around the thresholds)
CurrentFeatures == {49, 50}
VibrationFeatures == {1999, 2000}

\* ------------------------------------------------------------- classifier
\* variant: each field falls back on its own, a valid field is kept
ResolveThresholds_PerField(idle_text, vib_text) ==
    [idle |-> IF RaisesValueError(idle_text) THEN float(DEFAULT_IDLE_THRESHOLD)
              ELSE float(idle_text),
     vib  |-> IF RaisesValueError(vib_text) THEN float(DEFAULT_VIB_THRESHOLD)
              ELSE float(vib_text),
     log  |-> IF RaisesValueError(idle_text) \/ RaisesValueError(vib_text)
              THEN <<"threshold_invalid">> ELSE <<>>]

\* thresholds as resolved at the start of classify_cutting_state: one try
\* block parses both fields, any failure replaces both by the defaults
ResolveThresholds(idle_text, vib_text) ==
    IF RaisesValueError(idle_text) \/ RaisesValueError(vib_text)
    THEN [idle |-> float(DEFAULT_IDLE_THRESHOLD),
          vib  |-> float(DEFAULT_VIB_THRESHOLD),
          log  |-> <<"threshold_invalid">>]
    ELSE [idle |-> float(idle_text), vib |-> float(vib_text), log |-> <<>>]

\* variant: the cutting threshold compared with > instead of >=
current_instant_state_strict(current_rms_value, vib_rms_value, idle_thresh, vib_thresh) ==
    IF current_rms_value >= idle_thresh
    THEN IF vib_rms_value > vib_thresh THEN "CUTTING" ELSE "IDLE"
    ELSE "STOP"

\* instantaneous state of one cycle
current_instant_state(current_rms_value, vib_rms_value, idle_thresh, vib_thresh) ==
    IF current_rms_value >= idle_thresh
    THEN IF vib_rms_value >= vib_thresh THEN "CUTTING" ELSE "IDLE"
    ELSE "STOP"

\* variant: pop() instead of pop(0), the newest entry is dropped
AppendHistory_DropNewest(history, label) ==
    LET h == Append(history, label)
    IN  IF Len(h) > STABILITY_CHECK_COUNT THEN SubSeq(h, 1, STABILITY_CHECK_COUNT) ELSE h

\* state_history.append(label); pop(0) when longer than stability_check_count
AppendHistory(history, label) ==
    LET h == Append(history, label)
    IN  IF Len(h) > STABILITY_CHECK_COUNT THEN Tail(h) ELSE h

\* state_history.count(state)
state_counts(history, state) ==
    Cardinality({i \in 1..Len(history) : history[i] = state})

\* variant: one label less than the stability window is enough
majority_count_minus_one == STABILITY_CHECK_COUNT - 1

majority_count == STABILITY_CHECK_COUNT

\* variant: a single STOP label in the queue confirms STOP
SwitchState_AnyStop(state, history) ==
    IF state # "CUTTING" /\ state_counts(history, "CUTTING") >= majority_count
    THEN [state |-> "CUTTING", log |-> <<"switch_CUTTING">>]
    ELSE IF state = "CUTTING" /\ state_counts(history, "IDLE") >= majority_count
    THEN [state |-> "IDLE", log |-> <<"switch_IDLE">>]
    ELSE IF state_counts(history, "STOP") >= 1
    THEN IF state # "STOP"
         THEN [state |-> "STOP", log |-> <<"switch_STOP">>]
         ELSE [state |-> state, log |-> <<>>]
    ELSE IF state_counts(history, "IDLE") >= majority_count
    THEN [state |-> "IDLE", log |-> <<>>]
    ELSE [state |-> state, log |-> <<>>]

\* variant: the final elif (IDLE confirmed from STOP) is missing
SwitchState_NoDirectIdle(state, history) ==
    IF state # "CUTTING" /\ state_counts(history, "CUTTING") >= majority_count
    THEN [state |-> "CUTTING", log |-> <<"switch_CUTTING">>]
    ELSE IF state = "CUTTING" /\ state_counts(history, "IDLE") >= majority_count
    THEN [state |-> "IDLE", log |-> <<"switch_IDLE">>]
    ELSE IF state_counts(history, "STOP") >= majority_count
    THEN IF state # "STOP"
         THEN [state |-> "STOP", log |-> <<"switch_STOP">>]
         ELSE [state |-> state, log |-> <<>>]
    ELSE [state |-> state, log |-> <<>>]

\* variant: CUTTING is confirmed by a simple majority of the window
SwitchState_Majority(state, history) ==
    IF state # "CUTTING" /\ 2 * state_counts(history, "CUTTING") > majority_count
    THEN [state |-> "CUTTING", log |-> <<"switch_CUTTING">>]
    ELSE IF state = "CUTTING" /\ state_counts(history, "IDLE") >= majority_count
    THEN [state |-> "IDLE", log |-> <<"switch_IDLE">>]
    ELSE IF state_counts(history, "STOP") >= majority_count
    THEN IF state # "STOP"
         THEN [state |-> "STOP", log |-> <<"switch_STOP">>]
         ELSE [state |-> state, log |-> <<>>]
    ELSE IF state_counts(history, "IDLE") >= majority_count
    THEN [state |-> "IDLE", log |-> <<>>]
    ELSE [state |-> state, log |-> <<>>]

\* variant: CUTTING is left on the first IDLE label
SwitchState_EagerExit(state, history) ==
    IF state # "CUTTING" /\ state_counts(history, "CUTTING") >= majority_count
    THEN [state |-> "CUTTING", log |-> <<"switch_CUTTING">>]
    ELSE IF state = "CUTTING" /\ state_counts(history, "IDLE") >= 1
    THEN [state |-> "IDLE", log |-> <<"switch_IDLE">>]
    ELSE IF state_counts(history, "STOP") >= majority_count
    THEN IF state # "STOP"
         THEN [state |-> "STOP", log |-> <<"switch_STOP">>]
         ELSE [state |-> state, log |-> <<>>]
    ELSE IF state_counts(history, "IDLE") >= majority_count
    THEN [state |-> "IDLE", log |-> <<>>]
    ELSE [state |-> state, log |-> <<>>]

\* the if/elif chain that switches the confirmed state; log holds the
\* transition messages it writes
SwitchState(state, history) ==
    IF state # "CUTTING" /\ state_counts(history, "CUTTING") >= majority_count
    THEN [state |-> "CUTTING", log |-> <<"switch_CUTTING">>]
    ELSE IF state = "CUTTING" /\ state_counts(history, "IDLE") >= majority_count
    THEN [state |-> "IDLE", log |-> <<"switch_IDLE">>]
    ELSE IF state_counts(history, "STOP") >= majority_count
    THEN IF state # "STOP"
         THEN [state |-> "STOP", log |-> <<"switch_STOP">>]
         ELSE [state |-> state, log |-> <<>>]
    ELSE IF state_counts(history, "IDLE") >= majority_count
    THEN [state |-> "IDLE", log |-> <<>>]
    ELSE [state |-> state, log |-> <<>>]

\* variant: the switch is decided on the queue as it was before the append
classify_cutting_state_stale(state, history, data, idle_text, vib_text) ==
    LET th    == ResolveThresholds(idle_text, vib_text)
        label == current_instant_state(data.cur, data.vib, th.idle, th.vib)
        h     == AppendHistory(history, label)
        sw    == SwitchState(state, history)
    IN  [cutting_state |-> sw.state,
         state_history |-> h,
         label         |-> label,
         idle_thresh   |-> th.idle,
         vib_thresh    |-> th.vib,
         log           |-> th.log \o sw.log]

\* classify_cutting_state as a function of the object's fields and the inputs
classify_cutting_state(state, history, data, idle_text, vib_text) ==
    LET th    == ResolveThresholds(idle_text, vib_text)
        label == current_instant_state(data.cur, data.vib, th.idle, th.vib)
        h     == AppendHistory(history, label)
        sw    == SwitchState(state, h)
    IN  [cutting_state |-> sw.state,
         state_history |-> h,
         label         |-> label,
         idle_thresh   |-> th.idle,
         vib_thresh    |-> th.vib,
         log           |-> th.log \o sw.log]

\* -------------------------------------------------- ring-buffer reconstruction
\* the three pipelines that reconstruct channel rows
Pipelines == {"data_process", "gongkuang", "plc_plot"}

\* sample values of a raw row
Samples == {0, 1, 2}
Rows == [1..RowLen -> Samples]

\* pointer values an index word may hold: the ends of the 16-bit range and
\* every value from below -S to above S
Pointers == {-32768, -32767, 32766, 32767} \cup (-(RowLen + 2) .. (RowLen + 2))

\* a value stored in a 16-bit signed integer
Int16(x) == ((x + 32768) % 65536) - 32768

\* position at which a slice bound k cuts a sequence of length n
SliceBound(k, n) ==
    IF k < 0 THEN (IF k + n < 0 THEN 0 ELSE k + n)
    ELSE (IF k > n THEN n ELSE k)

\* seq[k:]
SliceFrom(seq, k) == SubSeq(seq, SliceBound(k, Len(seq)) + 1, Len(seq))

\* seq[:k]
SliceTo(seq, k) == SubSeq(seq, 1, SliceBound(k, Len(seq)))

\* write_ptr - 1 on an int16 scalar: the result stays int16 and wraps
\* (wraps = TRUE) or is promoted to a wider integer, depending on the
\* numpy version
PointerMinusOne(write_ptr, wraps) ==
    IF wraps THEN Int16(write_ptr - 1) ELSE write_ptr - 1

\* variant: the row is split at write_ptr itself
reconstruct_minus_one_at_pointer(channel_raw, write_ptr, wraps) ==
    LET k     == write_ptr
        part1 == SliceFrom(channel_raw, k)
        part2 == SliceTo(channel_raw, k)
    IN  [split |-> k, out |-> part1 \o part2]

\* variant: part2 stops one sample early, a sample is lost
reconstruct_minus_one_gap(channel_raw, write_ptr, wraps) ==
    LET k     == PointerMinusOne(write_ptr, wraps)
        part1 == SliceFrom(channel_raw, k)
        part2 == SliceTo(channel_raw, k - 1)
    IN  [split |-> k, out |-> part1 \o part2]

\* data_process.py and data_process_gongkuang.py: the row is split at
\* write_ptr - 1, the pointer is used as read
reconstruct_minus_one(channel_raw, write_ptr, wraps) ==
    LET k     == PointerMinusOne(write_ptr, wraps)
        part1 == SliceFrom(channel_raw, k)
        part2 == SliceTo(channel_raw, k)
    IN  [split |-> k, out |-> part1 \o part2]

\* variant: the two parts are concatenated in storage order
reconstruct_clamped_unrotated(channel_raw, write_ptr) ==
    LET p == IF write_ptr >= RowLen THEN RowLen - 1
             ELSE IF write_ptr < 0 THEN 0 ELSE write_ptr
    IN  [split |-> p, out |-> SliceTo(channel_raw, p) \o SliceFrom(channel_raw, p)]

\* plc_plot.py: the pointer is clamped into [0, S-1], the row is split at it
reconstruct_clamped(channel_raw, write_ptr) ==
    LET p == IF write_ptr >= RowLen THEN RowLen - 1
             ELSE IF write_ptr < 0 THEN 0 ELSE write_ptr
    IN  [split |-> p, out |-> SliceFrom(channel_raw, p) \o SliceTo(channel_raw, p)]

\* the loop body of process_data for one channel in the given pipeline;
\* raised: the assignment into the S-wide result row fails
reconstruct(pipeline, channel_raw, write_ptr, wraps) ==
    LET r == IF pipeline = "plc_plot"
             THEN reconstruct_clamped(channel_raw, write_ptr)
             ELSE reconstruct_minus_one(channel_raw, write_ptr, wraps)
    IN  [split |-> r.split, out |-> r.out, raised |-> Len(r.out) # Len(channel_raw)]

\* ------------------------------------------------------------------ state
VARIABLES
    plc_conn,               \* "None" or "open" (the code never closes it)
    is_realtime_running,
    sample_index,
    latest_processed_data,  \* None, or the features of the last processed block
    cutting_state,          \* the confirmed operating state
    state_history,          \* queue of instantaneous states
    realtime_read_button,   \* "normal" / "disabled"
    stop_read_button,
    pending,                \* realtime_monitor_loop callbacks queued by after()
    log,                    \* messages written by the most recent handler
    last,                   \* what the most recent handler did (observation)
    run,                    \* trailing run of equal instantaneous states (observation)
    save_calls,             \* calls of save_processed_data_to_file so far (observation)
    variant,                \* which program runs, and under which specification
    plot_history,           \* plc_plot.py: lengths of the plot history caches
    rc,                     \* one run of the reconstruction of a channel row
    tk,                     \* handler activations inside the Tk event loop
    validated,              \* the thresholds the fields last held as numbers (observation)
    blk                     \* one block on its way through process_data and the features

vars == <<plc_conn, is_realtime_running, sample_index, latest_processed_data,
          cutting_state, state_history, realtime_read_button, stop_read_button,
          pending, log, last, run, save_calls, variant, plot_history, rc, tk,
          validated, blk>>

\* the variables of the other components, which the handlers of this
\* program leave alone
others == <<variant, plot_history, rc, tk, validated, blk>>

None == [none |-> TRUE]

\* the handler's observation when it classified nothing
NotClassified(op) ==
    [op |-> op, classified |-> FALSE, label |-> "none", ret |-> "none",
     idle_thresh |-> 0, vib_thresh |-> 0, saves |-> 0, fields |-> <<>>]

\* no reconstruction under way
RcIdle ==
    [pipeline |-> "none", row |-> <<>>, ptr |-> 0, wraps |-> FALSE,
     done |-> FALSE, split |-> 0, out |-> <<>>, raised |-> FALSE]

\* no block under way
BlkIdle == [kind |-> "none"]

\* the event loop is idle: no handler is active
TkIdle == [stack |-> <<>>]

\* the object after __init__
InitApp ==
    /\ plc_conn = "None"
    /\ is_realtime_running = FALSE
    /\ sample_index = 0
    /\ latest_processed_data = None
    /\ cutting_state = "STOP"
    /\ state_history = <<>>
    /\ realtime_read_button = "normal"
    /\ stop_read_button = "disabled"
    /\ pending = 0
    /\ log = <<>>
    /\ last = NotClassified("init")
    /\ run = [label |-> "none", len |-> 0]
    /\ save_calls = 0
    /\ plot_history = [vib |-> 0, cur_x |-> 0, cur_y |-> 0]
    /\ validated = [idle |-> float(DEFAULT_IDLE_THRESHOLD),
                    vib  |-> float(DEFAULT_VIB_THRESHOLD)]

Init ==
    /\ InitApp
    /\ variant = "gongkuang"
    /\ rc = RcIdle
    /\ tk = TkIdle
    /\ blk = BlkIdle

\* ---------------------------------------------------------------- inputs
\* what one execution of realtime_monitor_loop reads from its environment
DefaultInput ==
    [interval_text |-> DEFAULT_INTERVAL_MS, read_ok |-> TRUE, shape_ok |-> TRUE,
     cur |-> 50, vib |-> 2000,
     idle_text |-> DEFAULT_IDLE_THRESHOLD, vib_text |-> DEFAULT_VIB_THRESHOLD,
     save_ok |-> TRUE]

CycleInputs ==
    {[DefaultInput EXCEPT !.interval_text = t] : t \in IntervalTexts \ {DEFAULT_INTERVAL_MS}}
    \cup {[DefaultInput EXCEPT !.read_ok = FALSE]}
    \cup {[DefaultInput EXCEPT !.shape_ok = FALSE]}
    \cup {[DefaultInput EXCEPT !.save_ok = FALSE]}
    \cup {[DefaultInput EXCEPT !.cur = c, !.vib = v,
                               !.idle_text = tt[1], !.vib_text = tt[2]] :
            c \in CurrentFeatures, v \in VibrationFeatures, tt \in ThresholdTexts}

\* --------------------------------------------------------------- handlers
\* _read_data_atomic: TRUE when it returns data, with the messages it logs
read_data_atomic(conn, read_ok) ==
    IF conn # "open" THEN [ok |-> FALSE, log |-> <<>>]
    ELSE IF read_ok THEN [ok |-> TRUE, log |-> <<>>]
    ELSE [ok |-> FALSE, log |-> <<"read_failed">>]

\* process_data: TRUE when it returns the two dictionaries
process_data(shape_ok) ==
    IF shape_ok THEN [ok |-> TRUE, log |-> <<>>]
    ELSE [ok |-> FALSE, log |-> <<"reshape_error">>]

\* save_processed_data_to_file: returns True, or logs and returns False
save_processed_data_to_file(save_ok) ==
    IF save_ok THEN [saved |-> TRUE, log |-> <<>>]
    ELSE [saved |-> FALSE, log |-> <<"save_failed">>]

\* variant: every processed block is saved
SaveDecision_Always(current_state, save_ok) ==
    LET sv == save_processed_data_to_file(save_ok)
    IN  [saves |-> 1,
         log |-> sv.log \o <<IF sv.saved THEN "cycle_saved" ELSE "cycle_save_failed">>]

\* the part of the cycle that decides whether the block is saved
SaveDecision(current_state, save_ok) ==
    IF current_state = "CUTTING"
    THEN LET sv == save_processed_data_to_file(save_ok)
         IN  [saves |-> 1,
              log |-> sv.log \o <<IF sv.saved THEN "cycle_saved" ELSE "cycle_save_failed">>]
    ELSE [saves |-> 0, log |-> <<"cycle_skipped">>]

\* variant: stopping also resets the confirmed state
stop_realtime_monitor_reset(e) ==
    [e EXCEPT !.is_realtime_running = FALSE,
              !.realtime_read_button = "normal",
              !.stop_read_button = "disabled",
              !.cutting_state = "STOP",
              !.log = e.log \o <<"stopped">>]

\* fields set by stop_realtime_monitor
stop_realtime_monitor(e) ==
    [e EXCEPT !.is_realtime_running = FALSE,
              !.realtime_read_button = "normal",
              !.stop_read_button = "disabled",
              !.log = e.log \o <<"stopped">>]

\* The object as a record, so that a handler is a function from the object on
\* entry to the object on return.
Object(op) ==
    [is_realtime_running   |-> is_realtime_running,
     sample_index          |-> sample_index,
     latest_processed_data |-> latest_processed_data,
     cutting_state         |-> cutting_state,
     state_history         |-> state_history,
     realtime_read_button  |-> realtime_read_button,
     stop_read_button      |-> stop_read_button,
     pending               |-> pending,
     log                   |-> <<>>,
     last                  |-> NotClassified(op),
     run                   |-> run,
     save_calls            |-> save_calls]

\* after(interval, realtime_monitor_loop) at the end of the loop
ScheduleNext(e) ==
    IF e.is_realtime_running THEN [e EXCEPT !.pending = e.pending + 1] ELSE e

\* variant: a cycle whose save failed is not counted
ProcessAndClassify_uncounted(e, in) ==
    LET pd == process_data(in.shape_ok)
    IN  IF ~pd.ok THEN [e EXCEPT !.log = e.log \o pd.log]
        ELSE
        LET data == [cur |-> in.cur, vib |-> in.vib]
            c    == classify_cutting_state(e.cutting_state, e.state_history, data,
                                           in.idle_text, in.vib_text)
            sd   == SaveDecision(c.cutting_state, in.save_ok)
        IN  [e EXCEPT !.sample_index = IF sd.saves = 1 /\ ~in.save_ok
                                       THEN e.sample_index ELSE e.sample_index + 1,
                      !.latest_processed_data = data,
                      !.cutting_state = c.cutting_state,
                      !.state_history = c.state_history,
                      !.log = e.log \o c.log \o sd.log,
                      !.last = [op |-> e.last.op, classified |-> TRUE,
                                label |-> c.label, ret |-> c.cutting_state,
                                idle_thresh |-> c.idle_thresh,
                                vib_thresh |-> c.vib_thresh, saves |-> sd.saves,
                                fields |-> <<in.idle_text, in.vib_text>>],
                      !.run = IF e.run.label = c.label
                              THEN [label |-> c.label, len |-> e.run.len + 1]
                              ELSE [label |-> c.label, len |-> 1],
                      !.save_calls = e.save_calls + sd.saves]

\* steps 3..5 of the loop once a block was read
ProcessAndClassify(e, in) ==
    LET pd == process_data(in.shape_ok)
    IN  IF ~pd.ok THEN [e EXCEPT !.log = e.log \o pd.log]
        ELSE
        LET data == [cur |-> in.cur, vib |-> in.vib]
            c    == classify_cutting_state(e.cutting_state, e.state_history, data,
                                           in.idle_text, in.vib_text)
            sd   == SaveDecision(c.cutting_state, in.save_ok)
        IN  [e EXCEPT !.sample_index = e.sample_index + 1,
                      !.latest_processed_data = data,
                      !.cutting_state = c.cutting_state,
                      !.state_history = c.state_history,
                      !.log = e.log \o c.log \o sd.log,
                      !.last = [op |-> e.last.op, classified |-> TRUE,
                                label |-> c.label, ret |-> c.cutting_state,
                                idle_thresh |-> c.idle_thresh,
                                vib_thresh |-> c.vib_thresh, saves |-> sd.saves,
                                fields |-> <<in.idle_text, in.vib_text>>],
                      !.run = IF e.run.label = c.label
                              THEN [label |-> c.label, len |-> e.run.len + 1]
                              ELSE [label |-> c.label, len |-> 1],
                      !.save_calls = e.save_calls + sd.saves]

\* variant: the callback does not look at is_realtime_running
realtime_monitor_loop_ignores_flag(e, conn, in) ==
    IF RaisesValueError(in.interval_text)
    THEN [e EXCEPT !.log = e.log \o <<"interval_invalid">>]
    ELSE LET rd == read_data_atomic(conn, in.read_ok)
         IN  IF ~rd.ok
             THEN stop_realtime_monitor([e EXCEPT !.log = e.log \o rd.log])
             ELSE ScheduleNext(ProcessAndClassify(e, in))

\* variant: a cycle whose read failed is counted as a sample
realtime_monitor_loop_counts_failed(e, conn, in) ==
    IF ~e.is_realtime_running THEN e
    ELSE IF RaisesValueError(in.interval_text)
    THEN [e EXCEPT !.log = e.log \o <<"interval_invalid">>]
    ELSE LET rd == read_data_atomic(conn, in.read_ok)
         IN  IF ~rd.ok
             THEN stop_realtime_monitor([e EXCEPT !.log = e.log \o rd.log,
                                                  !.sample_index = e.sample_index + 1])
             ELSE ScheduleNext(ProcessAndClassify(e, in))

\* realtime_monitor_loop, entered with the object e
realtime_monitor_loop(e, conn, in) ==
    IF ~e.is_realtime_running THEN e
    ELSE IF RaisesValueError(in.interval_text)
    \* except ValueError logs; the final after(interval, ...) then reads the
    \* unassigned local `interval` and raises, so nothing is scheduled
    THEN [e EXCEPT !.log = e.log \o <<"interval_invalid">>]
    ELSE LET rd == read_data_atomic(conn, in.read_ok)
         IN  IF ~rd.ok
             THEN stop_realtime_monitor([e EXCEPT !.log = e.log \o rd.log])
             ELSE ScheduleNext(ProcessAndClassify(e, in))

\* variant: starting clears the history queue
start_realtime_monitor_clears_history(e, conn, in) ==
    IF conn # "open" THEN [e EXCEPT !.log = e.log \o <<"open_port_first">>]
    ELSE realtime_monitor_loop(
            [e EXCEPT !.is_realtime_running = TRUE,
                      !.realtime_read_button = "disabled",
                      !.stop_read_button = "normal",
                      !.state_history = <<>>,
                      !.log = e.log \o <<"started">>], conn, in)

\* start_realtime_monitor, entered with the object e
start_realtime_monitor(e, conn, in) ==
    IF conn # "open" THEN [e EXCEPT !.log = e.log \o <<"open_port_first">>]
    ELSE realtime_monitor_loop(
            [e EXCEPT !.is_realtime_running = TRUE,
                      !.realtime_read_button = "disabled",
                      !.stop_read_button = "normal",
                      !.log = e.log \o <<"started">>], conn, in)

\* plc_port_open: the connection after the handler
plc_port_open(conn, connect_ok) ==
    IF conn = "open" THEN [conn |-> conn, log |-> <<"already_open">>]
    ELSE IF connect_ok THEN [conn |-> "open", log |-> <<"connected">>]
    ELSE [conn |-> "None", log |-> <<"connect_failed">>]

\* ---------------------------------------------------------------- actions
Return(e) ==
    /\ is_realtime_running' = e.is_realtime_running
    /\ sample_index' = e.sample_index
    /\ latest_processed_data' = e.latest_processed_data
    /\ cutting_state' = e.cutting_state
    /\ state_history' = e.state_history
    /\ realtime_read_button' = e.realtime_read_button
    /\ stop_read_button' = e.stop_read_button
    /\ pending' = e.pending
    /\ log' = e.log
    /\ last' = e.last
    /\ run' = e.run
    /\ save_calls' = e.save_calls

\* the user presses "open port"
PortOpen ==
    /\ variant = "gongkuang"
    /\ \E connect_ok \in BOOLEAN :
        LET r == plc_port_open(plc_conn, connect_ok)
        IN  /\ plc_conn' = r.conn
            /\ Return([Object("plc_port_open") EXCEPT !.log = r.log])
    /\ UNCHANGED others

\* the user presses "start" (only possible while the button is enabled)
Start ==
    /\ variant = "gongkuang"
    /\ realtime_read_button = "normal"
    /\ sample_index < MaxCycles
    /\ pending < MaxPending
    /\ \E in \in CycleInputs :
        Return(start_realtime_monitor(Object("start"), plc_conn, in))
    /\ UNCHANGED <<plc_conn, others>>

\* the user presses "stop" (only possible while the button is enabled)
Stop ==
    /\ variant = "gongkuang"
    /\ stop_read_button = "normal"
    /\ Return(stop_realtime_monitor(Object("stop")))
    /\ UNCHANGED <<plc_conn, others>>

\* a callback queued by after() fires
TimerFire ==
    /\ variant = "gongkuang"
    /\ pending > 0
    /\ sample_index < MaxCycles
    /\ \E in \in CycleInputs :
        Return(realtime_monitor_loop(
                 [Object("timer") EXCEPT !.pending = pending - 1], plc_conn, in))
    /\ UNCHANGED <<plc_conn, others>>

Next == PortOpen \/ Start \/ Stop \/ TimerFire

Spec == Init /\ [][Next]_vars

\* ------------------------------------------- specification: reconstruction
\* the variables of the monitor, which a reconstruction leaves alone
app == <<plc_conn, is_realtime_running, sample_index, latest_processed_data,
         cutting_state, state_history, realtime_read_button, stop_read_button,
         pending, log, last, run, save_calls>>

\* a block has been read: one channel row, its pointer word and the
\* arithmetic of the installed numpy are given
InitRecon ==
    /\ InitApp
    /\ variant = "none"
    /\ tk = TkIdle
    /\ blk = BlkIdle
    /\ \E pipeline \in Pipelines, row \in Rows, ptr \in Pointers, wraps \in BOOLEAN :
          rc = [RcIdle EXCEPT !.pipeline = pipeline, !.row = row,
                              !.ptr = ptr, !.wraps = wraps]

\* the loop body of process_data runs for the channel
Reconstruct ==
    /\ rc.pipeline \in Pipelines
    /\ ~rc.done
    /\ LET r == reconstruct(rc.pipeline, rc.row, rc.ptr, rc.wraps)
       IN  rc' = [rc EXCEPT !.done = TRUE, !.split = r.split,
                            !.out = r.out, !.raised = r.raised]
    /\ UNCHANGED <<app, variant, plot_history, tk, validated, blk>>

NextRecon == Reconstruct

SpecRecon == InitRecon /\ [][NextRecon]_vars

\* ---------------------------------------------------------- plc_plot.py
PLOT_SAMPLE_COUNT == 100
VIBRATION_GROUP_SIZE == 10
PLOT_HISTORY_LENGTH == 110
\* samples per millisecond of the interleaved vibration and of the current
VIB_SAMPLES_PER_MS == 10
CURR_SAMPLES_PER_MS == 1
MAX_VIB_HISTORY_POINTS == PLOT_HISTORY_LENGTH * VIBRATION_GROUP_SIZE * PLOT_SAMPLE_COUNT
MAX_CURR_HISTORY_POINTS == PLOT_HISTORY_LENGTH * PLOT_SAMPLE_COUNT

Min(a, b) == IF a < b THEN a ELSE b

\* what one handler of plc_plot.py reads from its environment
PlotInputs ==
    {[DefaultInput EXCEPT !.interval_text = t] : t \in IntervalTexts}
    \cup {[DefaultInput EXCEPT !.read_ok = FALSE]}
    \cup {[DefaultInput EXCEPT !.shape_ok = FALSE]}
    \cup {[DefaultInput EXCEPT !.save_ok = FALSE]}

\* the history caches after `extend` with n_vib / n_cur samples and the trim
ExtendHistory(hist, n_vib, n_cur) ==
    [vib   |-> Min(hist.vib + n_vib, MAX_VIB_HISTORY_POINTS),
     cur_x |-> Min(hist.cur_x + n_cur, MAX_CURR_HISTORY_POINTS),
     cur_y |-> Min(hist.cur_y + n_cur, MAX_CURR_HISTORY_POINTS)]

\* variant: the increment is cached before the block is reshaped
plot_process_data_cache_first(e, hist, in) ==
    LET T_interval_ms == IF RaisesValueError(in.interval_text)
                         THEN float(DEFAULT_INTERVAL_MS) ELSE float(in.interval_text)
        N_inc_vib_points  == Min(T_interval_ms * VIB_SAMPLES_PER_MS,
                                 VIBRATION_GROUP_SIZE * PLOT_SAMPLE_COUNT)
        N_inc_curr_points == Min(T_interval_ms * CURR_SAMPLES_PER_MS, PLOT_SAMPLE_COUNT)
    IN  IF ~in.shape_ok
        THEN [ok |-> FALSE, n_cur |-> 0,
              e |-> [e EXCEPT !.log = e.log \o <<"reshape_error">>],
              hist |-> ExtendHistory(hist, N_inc_vib_points, N_inc_curr_points)]
        ELSE [ok |-> TRUE, n_cur |-> N_inc_curr_points,
              e |-> [e EXCEPT !.sample_index = e.sample_index + N_inc_curr_points],
              hist |-> ExtendHistory(hist, N_inc_vib_points, N_inc_curr_points)]

\* GUI.process_data: the reshape comes before every write to the object
plot_process_data(e, hist, in) ==
    LET T_interval_ms == IF RaisesValueError(in.interval_text)
                         THEN float(DEFAULT_INTERVAL_MS) ELSE float(in.interval_text)
        N_inc_vib_points  == Min(T_interval_ms * VIB_SAMPLES_PER_MS,
                                 VIBRATION_GROUP_SIZE * PLOT_SAMPLE_COUNT)
        N_inc_curr_points == Min(T_interval_ms * CURR_SAMPLES_PER_MS, PLOT_SAMPLE_COUNT)
    IN  IF ~in.shape_ok
        THEN [ok |-> FALSE, n_cur |-> 0,
              e |-> [e EXCEPT !.log = e.log \o <<"reshape_error">>],
              hist |-> hist]
        ELSE [ok |-> TRUE, n_cur |-> N_inc_curr_points,
              e |-> [e EXCEPT !.sample_index = e.sample_index + N_inc_curr_points],
              hist |-> ExtendHistory(hist, N_inc_vib_points, N_inc_curr_points)]

\* GUI.save_data_to_file: a failure is logged inside
plot_save_data_to_file(e, save_ok) ==
    [e EXCEPT !.save_calls = e.save_calls + 1,
              !.last = [e.last EXCEPT !.saves = 1],
              !.log = IF save_ok THEN e.log ELSE e.log \o <<"save_failed">>]

\* GUI.realtime_monitor_loop, entered with the object e and the caches hist
plot_realtime_monitor_loop(e, hist, conn, in) ==
    IF ~e.is_realtime_running THEN [e |-> e, hist |-> hist]
    ELSE
    LET e1 == IF RaisesValueError(in.interval_text)
              THEN [e EXCEPT !.log = e.log \o <<"interval_defaulted">>] ELSE e
        rd == read_data_atomic(conn, in.read_ok)
    IN  IF ~rd.ok
        THEN [e |-> stop_realtime_monitor([e1 EXCEPT !.log = e1.log \o rd.log]),
              hist |-> hist]
        ELSE
        LET pd == plot_process_data(e1, hist, in)
        IN  IF ~pd.ok
            \* `return` inside the try block: the rescheduling is skipped
            THEN [e |-> pd.e, hist |-> pd.hist]
            ELSE
            LET e2 == plot_save_data_to_file(pd.e, in.save_ok)
                e3 == IF e2.sample_index % (10 * pd.n_cur) = 0
                      THEN [e2 EXCEPT !.log = e2.log \o <<"cycle_update">>] ELSE e2
            IN  [e |-> ScheduleNext(e3), hist |-> pd.hist]

\* variant: the monitor is started whatever the connection is
plot_start_realtime_monitor_unchecked(e, hist, conn, in) ==
    plot_realtime_monitor_loop(
        [e EXCEPT !.is_realtime_running = TRUE,
                  !.realtime_read_button = "disabled",
                  !.stop_read_button = "normal",
                  !.log = e.log \o <<"started">>], hist, conn, in)

\* GUI.start_realtime_monitor
plot_start_realtime_monitor(e, hist, conn, in) ==
    IF conn # "open"
    THEN [e |-> [e EXCEPT !.log = e.log \o <<"open_port_first">>], hist |-> hist]
    ELSE plot_realtime_monitor_loop(
            [e EXCEPT !.is_realtime_running = TRUE,
                      !.realtime_read_button = "disabled",
                      !.stop_read_button = "normal",
                      !.log = e.log \o <<"started">>], hist, conn, in)

\* GUI.read_data_once
plot_read_data_once(e, hist, conn, in) ==
    LET e1 == [e EXCEPT !.log = e.log \o <<"read_once">>]
        rd == read_data_atomic(conn, in.read_ok)
    IN  IF ~rd.ok THEN [e |-> [e1 EXCEPT !.log = e1.log \o rd.log], hist |-> hist]
        ELSE
        LET pd == plot_process_data(e1, hist, in)
        IN  IF ~pd.ok THEN [e |-> pd.e, hist |-> pd.hist]
            ELSE LET e2 == plot_save_data_to_file(pd.e, in.save_ok)
                 IN  [e |-> [e2 EXCEPT !.log = e2.log \o <<"read_once_done">>],
                      hist |-> pd.hist]

\* GUI.plc_port_open: the port number is parsed first
plot_plc_port_open(conn, port_ok, connect_ok) ==
    IF ~port_ok THEN [conn |-> conn, log |-> <<"port_invalid">>]
    ELSE plc_port_open(conn, connect_ok)

\* a handler of plc_plot.py returns
PlotReturn(r) ==
    /\ Return(r.e)
    /\ plot_history' = r.hist
    /\ UNCHANGED <<variant, rc, tk, validated, blk>>

PlotPortOpen ==
    /\ variant = "plc_plot"
    /\ \E port_ok \in BOOLEAN, connect_ok \in BOOLEAN :
        LET r == plot_plc_port_open(plc_conn, port_ok, connect_ok)
        IN  /\ plc_conn' = r.conn
            /\ PlotReturn([e |-> [Object("plc_port_open") EXCEPT !.log = r.log],
                           hist |-> plot_history])

PlotStart ==
    /\ variant = "plc_plot"
    /\ realtime_read_button = "normal"
    /\ sample_index < MaxPlotPoints
    /\ pending < MaxPending
    /\ \E in \in PlotInputs :
        PlotReturn(plot_start_realtime_monitor(Object("start"), plot_history, plc_conn, in))
    /\ UNCHANGED plc_conn

PlotStop ==
    /\ variant = "plc_plot"
    /\ stop_read_button = "normal"
    /\ PlotReturn([e |-> stop_realtime_monitor(Object("stop")), hist |-> plot_history])
    /\ UNCHANGED plc_conn

PlotTimerFire ==
    /\ variant = "plc_plot"
    /\ pending > 0
    /\ sample_index < MaxPlotPoints
    /\ \E in \in PlotInputs :
        PlotReturn(plot_realtime_monitor_loop(
                     [Object("timer") EXCEPT !.pending = pending - 1],
                     plot_history, plc_conn, in))
    /\ UNCHANGED plc_conn

PlotReadOnce ==
    /\ variant = "plc_plot"
    /\ sample_index < MaxPlotPoints
    /\ \E in \in PlotInputs :
        PlotReturn(plot_read_data_once(Object("read_once"), plot_history, plc_conn, in))
    /\ UNCHANGED plc_conn

\* ------------------------------------- specification: the two monitors
\* cycles of data_process_gongkuang.py that label CUTTING or STOP, or fail
FewInputs ==
    {DefaultInput, [DefaultInput EXCEPT !.cur = 49],
     [DefaultInput EXCEPT !.read_ok = FALSE], [DefaultInput EXCEPT !.shape_ok = FALSE]}

\* data_process_gongkuang.py: the user presses "start"
StartFew ==
    /\ variant = "gongkuang"
    /\ realtime_read_button = "normal"
    /\ sample_index < MaxCycles
    /\ pending < MaxPending
    /\ \E in \in FewInputs :
        Return(start_realtime_monitor(Object("start"), plc_conn, in))
    /\ UNCHANGED <<plc_conn, others>>

\* data_process_gongkuang.py: a callback queued by after() fires
TimerFireFew ==
    /\ variant = "gongkuang"
    /\ pending > 0
    /\ sample_index < MaxCycles
    /\ \E in \in FewInputs :
        Return(realtime_monitor_loop(
                 [Object("timer") EXCEPT !.pending = pending - 1], plc_conn, in))
    /\ UNCHANGED <<plc_conn, others>>

\* one of the two programs has been started
InitVariants ==
    /\ InitApp
    /\ variant \in {"gongkuang", "plc_plot"}
    /\ rc = RcIdle
    /\ tk = TkIdle
    /\ blk = BlkIdle

NextVariants ==
    \/ PortOpen \/ StartFew \/ Stop \/ TimerFireFew
    \/ PlotPortOpen \/ PlotStart \/ PlotStop \/ PlotTimerFire \/ PlotReadOnce

SpecVariants == InitVariants /\ [][NextVariants]_vars

\* ------------------------- specification: handlers inside the event loop
\* write_log_to_text ends with log_text.update(), which dispatches the events
\* that are waiting: button clicks and due timer callbacks run as nested
\* calls before update() returns. tk.stack holds the active handlers, the
\* innermost last; a frame with pc "update" is inside that call.
Frame(fn, pc) == [fn |-> fn, pc |-> pc]

Depth == Len(tk.stack)

Top == tk.stack[Depth]

Push(f) == [tk EXCEPT !.stack = Append(tk.stack, f)]

Pop == [tk EXCEPT !.stack = SubSeq(tk.stack, 1, Depth - 1)]

ReplaceTop(f) == [tk EXCEPT !.stack[Depth] = f]

\* the event loop may run a handler: it is idle, or the innermost handler
\* is inside log_text.update()
CanDispatch == IF Depth = 0 THEN TRUE ELSE Top.pc = "update"

\* cycles as seen by the event loop: a block labelled CUTTING, a block of
\* the wrong size, a failed read
TkInputs ==
    {DefaultInput, [DefaultInput EXCEPT !.shape_ok = FALSE],
     [DefaultInput EXCEPT !.read_ok = FALSE]}

\* loop activations on the stack that have not returned yet
LoopFrames == {i \in 1..Depth : tk.stack[i].fn = "loop"}

\* the user presses "open port" while no handler is active
TkPortOpen ==
    /\ variant = "gongkuang_tk"
    /\ Depth = 0
    /\ \E connect_ok \in BOOLEAN :
        LET r == plc_port_open(plc_conn, connect_ok)
        IN  /\ plc_conn' = r.conn
            /\ Return([Object("plc_port_open") EXCEPT !.log = r.log])
    /\ UNCHANGED others

\* a click on "start" is dispatched: start_realtime_monitor runs up to the
\* update() of its log message
ClickStart ==
    /\ variant = "gongkuang_tk"
    /\ CanDispatch
    /\ realtime_read_button = "normal"
    /\ Depth < MaxDepth
    /\ pending + Cardinality(LoopFrames) < MaxPending
    /\ LET e == Object("start")
       IN  IF plc_conn # "open"
           THEN /\ Return([e EXCEPT !.log = <<"open_port_first">>])
                /\ tk' = tk
           ELSE /\ Return([e EXCEPT !.is_realtime_running = TRUE,
                                    !.realtime_read_button = "disabled",
                                    !.stop_read_button = "normal",
                                    !.log = <<"started">>])
                /\ tk' = Push(Frame("start", "update"))
    /\ UNCHANGED <<plc_conn, variant, plot_history, rc, validated, blk>>

\* a click on "stop" is dispatched: stop_realtime_monitor runs up to the
\* update() of its log message
ClickStop ==
    /\ variant = "gongkuang_tk"
    /\ CanDispatch
    /\ stop_read_button = "normal"
    /\ Depth < MaxDepth
    /\ Return(stop_realtime_monitor(Object("stop")))
    /\ tk' = Push(Frame("stop", "update"))
    /\ UNCHANGED <<plc_conn, variant, plot_history, rc, validated, blk>>

\* a due after() callback is dispatched: realtime_monitor_loop is entered
TimerDue ==
    /\ variant = "gongkuang_tk"
    /\ CanDispatch
    /\ pending > 0
    /\ Depth < MaxDepth
    /\ Return([Object("timer") EXCEPT !.pending = pending - 1])
    /\ tk' = Push(Frame("loop", "entry"))
    /\ UNCHANGED <<plc_conn, variant, plot_history, rc, validated, blk>>

\* realtime_monitor_loop runs from its first line to the update() of the
\* message that ends the cycle, or returns early
LoopRuns ==
    /\ variant = "gongkuang_tk"
    /\ Depth > 0
    /\ Top = Frame("loop", "entry")
    /\ sample_index < MaxCycles
    /\ LET e == Object("loop")
       IN  IF ~is_realtime_running
           THEN /\ Return(e)
                /\ tk' = Pop
           ELSE \E in \in TkInputs :
                  LET rd == read_data_atomic(plc_conn, in.read_ok)
                  IN  IF ~rd.ok
                      THEN /\ Return(stop_realtime_monitor([e EXCEPT !.log = rd.log]))
                           /\ tk' = Pop
                      ELSE /\ Return(ProcessAndClassify(e, in))
                           /\ tk' = ReplaceTop(Frame("loop", "update"))
    /\ UNCHANGED <<plc_conn, variant, plot_history, rc, validated, blk>>

\* log_text.update() returns and the handler runs to its end: stop returns,
\* start calls realtime_monitor_loop as its last statement, the loop
\* schedules the next callback if the monitor is running
UpdateReturns ==
    /\ variant = "gongkuang_tk"
    /\ Depth > 0
    /\ Top.pc = "update"
    /\ CASE Top.fn = "stop"  -> /\ Return(Object("stop"))
                                /\ tk' = Pop
         [] Top.fn = "start" -> /\ Return(Object("start"))
                                /\ tk' = ReplaceTop(Frame("loop", "entry"))
         [] Top.fn = "loop"  -> /\ Return(ScheduleNext(Object("loop")))
                                /\ tk' = Pop
    /\ UNCHANGED <<plc_conn, variant, plot_history, rc, validated, blk>>

InitTk ==
    /\ InitApp
    /\ variant = "gongkuang_tk"
    /\ rc = RcIdle
    /\ tk = TkIdle
    /\ blk = BlkIdle

NextTk == TkPortOpen \/ ClickStart \/ ClickStop \/ TimerDue \/ LoopRuns \/ UpdateReturns

SpecTk == InitTk /\ [][NextTk]_vars

\* ------------------------------------------------- demultiplexing a block
\* Block dimensions of the block model: three axes of GroupSize channels,
\* three current phases, and rows the PLC allocates beyond them.
BLK_VIBRATION_CHANNELS == 3 * GroupSize
BLK_CURRENT_CHANNELS == 3
BLK_TOTAL_CHANNELS == BLK_VIBRATION_CHANNELS + BLK_CURRENT_CHANNELS
BLK_FULL_CHANNELS == BLK_TOTAL_CHANNELS + 2

\* variant: the columns one after another (the first index varying fastest)
flatten_sample_major(matrix) ==
    IF matrix = <<>> THEN <<>>
    ELSE [n \in 1..(Len(matrix) * Len(matrix[1])) |->
            matrix[((n - 1) % Len(matrix)) + 1][((n - 1) \div Len(matrix)) + 1]]

\* ndarray.flatten of a two-dimensional array: the rows one after another
\* (C order, the last index varying fastest)
flatten(matrix) ==
    IF matrix = <<>> THEN <<>>
    ELSE [n \in 1..(Len(matrix) * Len(matrix[1])) |->
            matrix[((n - 1) \div Len(matrix[1])) + 1][((n - 1) % Len(matrix[1])) + 1]]

\* ndarray.T of a two-dimensional array
transpose(matrix) ==
    [j \in 1..Len(matrix[1]) |-> [k \in 1..Len(matrix) |-> matrix[k][j]]]

\* variant: the group is flattened without being transposed
interleave_vibration_untransposed(channels_data) == flatten(channels_data)

\* variant: every channel of the interleaved series is the first channel
interleave_vibration_first_channel(channels_data) ==
    flatten(transpose([k \in 1..Len(channels_data) |-> channels_data[1]]))

\* plc_plot.py: interleave_vibration, channels_data.T.flatten()
interleave_vibration(channels_data) == flatten(transpose(channels_data))

\* matrix[lo:hi, :] with 0-based bounds lo <= hi within the matrix
RowsOf(matrix, lo, hi) == SubSeq(matrix, lo + 1, hi)

\* matrix[:, -n:]: the slice row[-n:] of every row
ColumnsFrom(matrix, n) == [i \in 1..Len(matrix) |-> SliceFrom(matrix[i], -n)]

\* the rows of continuous_data: channel i of the raw block reconstructed
\* with its own pointer, for the first BLK_TOTAL_CHANNELS channels only
continuous_data(pipeline, raw_matrix, index_array, wraps) ==
    [i \in 1..BLK_TOTAL_CHANNELS |->
        reconstruct(pipeline, raw_matrix[i], index_array[i], wraps).out]

\* Numbers typed into the interval field are held in hundredths of a
\* millisecond. int(x) of a float truncates towards zero.
IntOfHundredths(t100) ==
    IF t100 >= 0 THEN t100 \div 100 ELSE -((-t100) \div 100)

\* round(x) of a float with d hundredths per unit: to the nearest whole
\* number, a tie going to the even one
RoundDiv(x, d) ==
    LET q == x \div d
        r == x % d
    IN  IF 2 * r < d THEN q
        ELSE IF 2 * r > d THEN q + 1
        ELSE IF q % 2 = 0 THEN q ELSE q + 1

\* plc_plot.py: N_inc_vib_points, from T_interval_ms and the 10 kHz rate
N_inc_vib_points(t100, series_len) == Min(RoundDiv(t100 * VIB_SAMPLES_PER_MS, 100), series_len)

\* plc_plot.py: N_inc_curr_points, from T_interval_ms and the 1 kHz rate
N_inc_curr_points(t100, sample_count) == Min(RoundDiv(t100 * CURR_SAMPLES_PER_MS, 100), sample_count)

\* variant: the increment is one sample per 10 ms
N_inc_curr_per_10ms(t100, sample_count) == Min(IntOfHundredths(t100) \div 10, sample_count)

\* data_process_gongkuang.py: N_inc_curr = min(int(T_interval_ms), SAMPLE_COUNT)
N_inc_curr(t100, sample_count) == Min(IntOfHundredths(t100), sample_count)

\* the three axes and three phases cut out of the reconstructed rows by
\* flatten (data_process.py, data_process_gongkuang.py)
demux_flatten(rows) ==
    LET g == GroupSize
        vib_channels == RowsOf(rows, 0, BLK_VIBRATION_CHANNELS)
        current_channels == RowsOf(rows, BLK_VIBRATION_CHANNELS, Len(rows))
    IN  [X |-> flatten(RowsOf(vib_channels, 0, g)),
         Y |-> flatten(RowsOf(vib_channels, g, 2 * g)),
         Z |-> flatten(RowsOf(vib_channels, 2 * g, 3 * g)),
         A |-> current_channels[1],
         B |-> current_channels[2],
         C |-> current_channels[3]]

\* the three axes and three phases cut out of the reconstructed rows by
\* interleaving (plc_plot.py)
demux_interleave(rows) ==
    LET g == GroupSize
        vib_channels == RowsOf(rows, 0, BLK_VIBRATION_CHANNELS)
        current_channels == RowsOf(rows, BLK_VIBRATION_CHANNELS, Len(rows))
    IN  [X |-> interleave_vibration(RowsOf(vib_channels, 0, g)),
         Y |-> interleave_vibration(RowsOf(vib_channels, g, 2 * g)),
         Z |-> interleave_vibration(RowsOf(vib_channels, 2 * g, 3 * g)),
         A |-> current_channels[1],
         B |-> current_channels[2],
         C |-> current_channels[3]]

\* data_process_gongkuang.py: the incremental dictionary, the last
\* N_inc_curr columns of the reconstructed rows demultiplexed by flatten
incremental_flatten(rows, t100) ==
    LET n == N_inc_curr(t100, Len(rows[1]))
    IN  [n_vib |-> GroupSize * n, n_cur |-> n,
         data |-> demux_flatten(ColumnsFrom(rows, n))]

\* variant: the vibration increment is cut from the head of the series
incremental_interleave_head(rows, t100) ==
    LET full  == demux_interleave(rows)
        n_vib == N_inc_vib_points(t100, Len(full.X))
        n_cur == N_inc_curr_points(t100, Len(rows[1]))
    IN  [n_vib |-> n_vib, n_cur |-> n_cur,
         data |-> [X |-> SliceTo(full.X, n_vib),
                   Y |-> SliceTo(full.Y, n_vib),
                   Z |-> SliceTo(full.Z, n_vib),
                   A |-> SliceFrom(full.A, -n_cur),
                   B |-> SliceFrom(full.B, -n_cur),
                   C |-> SliceFrom(full.C, -n_cur)]]

\* plc_plot.py: the incremental dictionary, the last N_inc_vib_points of each
\* interleaved axis and the last N_inc_curr_points of each phase
incremental_interleave(rows, t100) ==
    LET full  == demux_interleave(rows)
        n_vib == N_inc_vib_points(t100, Len(full.X))
        n_cur == N_inc_curr_points(t100, Len(rows[1]))
    IN  [n_vib |-> n_vib, n_cur |-> n_cur,
         data |-> [X |-> SliceFrom(full.X, -n_vib),
                   Y |-> SliceFrom(full.Y, -n_vib),
                   Z |-> SliceFrom(full.Z, -n_vib),
                   A |-> SliceFrom(full.A, -n_cur),
                   B |-> SliceFrom(full.B, -n_cur),
                   C |-> SliceFrom(full.C, -n_cur)]]

\* process_data of the given pipeline on a block of the right size: the
\* reconstructed rows, the full series and the incremental series
\* (data_process.py extracts no increment)
process_block(pipeline, raw_matrix, index_array, wraps, t100) ==
    LET rows == continuous_data(pipeline, raw_matrix, index_array, wraps)
    IN  IF pipeline = "plc_plot"
        THEN [rows |-> rows, full |-> demux_interleave(rows), has_inc |-> TRUE,
              inc |-> incremental_interleave(rows, t100)]
        ELSE IF pipeline = "gongkuang"
        THEN [rows |-> rows, full |-> demux_flatten(rows), has_inc |-> TRUE,
              inc |-> incremental_flatten(rows, t100)]
        ELSE [rows |-> rows, full |-> demux_flatten(rows), has_inc |-> FALSE,
              inc |-> [n_vib |-> 0, n_cur |-> 0, data |-> demux_flatten(rows)]]

\* --------------------------------------- specification: threshold editing
\* texts the user may type into the idle and the vibration threshold field
IdleThresholdTexts == {"10", "50", "abc"}
VibThresholdTexts == {"2000", "2500", "abc"}

\* a cycle with given features and threshold fields
ThresholdInputs ==
    {[DefaultInput EXCEPT !.cur = c, !.vib = v, !.idle_text = it, !.vib_text = vt] :
        c \in CurrentFeatures, v \in VibrationFeatures,
        it \in IdleThresholdTexts, vt \in VibThresholdTexts}

\* the monitor has been started on an open port; its first block had the
\* wrong size, so that no cycle has classified yet
InitThresholds ==
    /\ plc_conn = "open"
    /\ is_realtime_running = TRUE
    /\ sample_index = 0
    /\ latest_processed_data = None
    /\ cutting_state = "STOP"
    /\ state_history = <<>>
    /\ realtime_read_button = "disabled"
    /\ stop_read_button = "normal"
    /\ pending = 1
    /\ log = <<"started", "reshape_error">>
    /\ last = NotClassified("start")
    /\ run = [label |-> "none", len |-> 0]
    /\ save_calls = 0
    /\ plot_history = [vib |-> 0, cur_x |-> 0, cur_y |-> 0]
    /\ validated = [idle |-> float(DEFAULT_IDLE_THRESHOLD),
                    vib  |-> float(DEFAULT_VIB_THRESHOLD)]
    /\ variant = "gongkuang_thresholds"
    /\ rc = RcIdle
    /\ tk = TkIdle
    /\ blk = BlkIdle

\* the timer callback fires; the threshold fields hold what the user typed
TimerFireThresholds ==
    /\ variant = "gongkuang_thresholds"
    /\ pending > 0
    /\ sample_index < MaxClassify
    /\ \E in \in ThresholdInputs :
        /\ Return(realtime_monitor_loop(
                 [Object("timer") EXCEPT !.pending = pending - 1], plc_conn, in))
        /\ validated' =
              [idle |-> IF RaisesValueError(in.idle_text) THEN validated.idle
                        ELSE float(in.idle_text),
               vib  |-> IF RaisesValueError(in.vib_text) THEN validated.vib
                        ELSE float(in.vib_text)]
    /\ UNCHANGED <<plc_conn, variant, plot_history, rc, tk, blk>>

NextThresholds == TimerFireThresholds

SpecThresholds == InitThresholds /\ [][NextThresholds]_vars

\* ----------------------------------------------------------- RMS features
\* variant: the sample is squared as the 16-bit integer it is read as
square_int16(x) == Int16(x * x)

\* x.astype(np.float64)**2 for a 16-bit sample: the square is at most 2^30
\* and a float64 holds it exactly
square_float64(x) == x * x

\* The sum of the squares of series[lo..hi], held as whole * n + rem with
\* 0 <= rem < n, so that whole + rem/n is the sum divided by n. The sum is
\* taken by halves, as np.mean adds pairwise.
RECURSIVE SumOfSquares(_, _, _, _)
SumOfSquares(series, lo, hi, n) ==
    IF lo > hi THEN [whole |-> 0, rem |-> 0]
    ELSE IF lo = hi
    THEN LET sq == square_float64(series[lo])
         IN  [whole |-> sq \div n, rem |-> sq % n]
    ELSE LET mid   == (lo + hi) \div 2
             left  == SumOfSquares(series, lo, mid, n)
             right == SumOfSquares(series, mid + 1, hi, n)
             r     == left.rem + right.rem
         IN  [whole |-> left.whole + right.whole + (IF r >= n THEN 1 ELSE 0),
              rem   |-> IF r >= n THEN r - n ELSE r]

\* np.mean of the squares of a non-empty series
mean_square(series) == SumOfSquares(series, 1, Len(series), Len(series))

\* the largest whole number between lo and hi whose square is at most m
RECURSIVE IsqrtBetween(_, _, _)
IsqrtBetween(m, lo, hi) ==
    IF hi - lo <= 1 THEN lo
    ELSE LET mid == (lo + hi) \div 2
         IN  IF mid * mid <= m THEN IsqrtBetween(m, mid, hi)
             ELSE IsqrtBetween(m, lo, mid)

\* np.sqrt(np.mean(series.astype(np.float64)**2)): the whole part of the
\* root, whether the root is that whole number exactly, and nan for the root
\* of a negative mean
rms(series) ==
    LET m == mean_square(series)
    IN  IF m.whole < 0 THEN [nan |-> TRUE, floor |-> -1, exact |-> FALSE]
        ELSE LET f == IsqrtBetween(m.whole, 0, 32769)
             IN  [nan |-> FALSE, floor |-> f,
                  exact |-> (m.rem = 0 /\ f * f = m.whole)]

\* variant: the feature is the RMS of the X axis
calculate_vibration_feature_x(vib_data) == rms(vib_data.X)

\* calculate_vibration_feature: the RMS of the Z axis
calculate_vibration_feature(vib_data) == rms(vib_data.Z)

\* calculate_current_feature: the mean of the RMS of the three phases. When
\* the three roots are whole numbers, floor is the whole part of their mean
\* and exact says whether the mean is that whole number; the specifications
\* draw phase rows of one magnitude, whose roots are whole.
calculate_current_feature(current_data) ==
    LET a == rms(current_data.A)
        b == rms(current_data.B)
        c == rms(current_data.C)
    IN  IF a.nan \/ b.nan \/ c.nan
        THEN [nan |-> TRUE, floor |-> -1, exact |-> FALSE]
        ELSE [nan |-> FALSE, floor |-> (a.floor + b.floor + c.floor) \div 3,
              exact |-> /\ a.exact /\ b.exact /\ c.exact
                        /\ (a.floor + b.floor + c.floor) % 3 = 0]

\* ------------------------------- specification: the incremental window
\* Interval texts, as hundredths of a millisecond: every quarter of a
\* millisecond from -2 ms up, and values around and beyond the 100 ms block.
IntervalHundredths ==
    {25 * k : k \in (-8)..IntervalSteps} \cup {10000, 10025, 10050, 20000}

\* The interval texts with which process_data runs. The monitoring loop of
\* data_process_gongkuang.py converts the text with int() before it calls
\* process_data, so only whole numbers get there; plc_plot.py falls back to
\* the default timer interval and then calls process_data with the text.
WindowIntervals(pipeline) ==
    IF pipeline = "gongkuang" THEN {t \in IntervalHundredths : t % 100 = 0}
    ELSE IntervalHundredths

\* lengths of the incremental series process_data extracts from a block of
\* VIBRATION_GROUP_SIZE x PLOT_SAMPLE_COUNT samples per axis
window_lengths(pipeline, t100) ==
    LET sample_count == PLOT_SAMPLE_COUNT
        axis_len     == VIBRATION_GROUP_SIZE * PLOT_SAMPLE_COUNT
        row          == [i \in 1..sample_count |-> i]
        axis         == [i \in 1..axis_len |-> i]
    IN  IF pipeline = "plc_plot"
        THEN LET n_vib == N_inc_vib_points(t100, axis_len)
                 n_cur == N_inc_curr_points(t100, sample_count)
             IN  [n_vib |-> n_vib, n_cur |-> n_cur,
                  vib_len |-> Len(SliceFrom(axis, -n_vib)),
                  cur_len |-> Len(SliceFrom(row, -n_cur))]
        ELSE LET n == N_inc_curr(t100, sample_count)
             IN  [n_vib |-> VIBRATION_GROUP_SIZE * n, n_cur |-> n,
                  vib_len |-> VIBRATION_GROUP_SIZE * Len(SliceFrom(row, -n)),
                  cur_len |-> Len(SliceFrom(row, -n))]

InitWindow ==
    /\ InitApp
    /\ variant = "window"
    /\ rc = RcIdle
    /\ tk = TkIdle
    /\ blk = BlkIdle

ExtractWindow ==
    /\ variant = "window"
    /\ \E pipeline \in {"gongkuang", "plc_plot"} :
         \E t100 \in WindowIntervals(pipeline) :
            blk' = [kind |-> "window", pipeline |-> pipeline, t100 |-> t100,
                    lengths |-> window_lengths(pipeline, t100)]
    /\ UNCHANGED <<app, variant, plot_history, rc, tk, validated>>

NextWindow == ExtractWindow

SpecWindow == InitWindow /\ [][NextWindow]_vars

\* ------------------------------------- specification: one block, end to end
\* Raw blocks: the used rows either carry a tag that is different for every
\* (row, column) or are all alike; the rows the PLC allocates beyond the used
\* ones are filled with a value of their own.
RawMatrices ==
    {[i \in 1..BLK_FULL_CHANNELS |-> [j \in 1..RowLen |->
            IF i > BLK_TOTAL_CHANNELS THEN unused
            ELSE (i - 1) * stride + j]] :
        stride \in {0, RowLen}, unused \in {0, 99}}

\* Index arrays: the same pointer for every channel, or pointers staggered
\* from channel to channel.
IndexArrays ==
    {[i \in 1..BLK_FULL_CHANNELS |-> ptr] :
        ptr \in {-32768, -1, 0, 1, RowLen - 1, RowLen, 32767}}
    \cup {[i \in 1..BLK_FULL_CHANNELS |-> (i + first) % (RowLen + 1)] :
            first \in 0..RowLen}

\* the interval texts tried with a block of RowLen samples per row
BlockIntervals(pipeline) ==
    IF pipeline = "data_process" THEN {100 * float(DEFAULT_INTERVAL_MS)}
    ELSE {t \in WindowIntervals(pipeline) : -100 <= t /\ t <= 100 * RowLen}

\* a block has been read and process_data is about to run on it
InitBlock ==
    /\ InitApp
    /\ variant = "block"
    /\ rc = RcIdle
    /\ tk = TkIdle
    /\ \E pipeline \in Pipelines :
         \E raw_matrix \in RawMatrices, index_array \in IndexArrays,
            wraps \in BOOLEAN, t100 \in BlockIntervals(pipeline) :
            blk = [kind |-> "raw", pipeline |-> pipeline,
                   raw_matrix |-> raw_matrix, index_array |-> index_array,
                   wraps |-> wraps, t100 |-> t100]

ProcessBlock ==
    /\ variant = "block"
    /\ blk.kind = "raw"
    /\ blk' = [kind |-> "block", pipeline |-> blk.pipeline,
               raw_matrix |-> blk.raw_matrix, index_array |-> blk.index_array,
               wraps |-> blk.wraps, t100 |-> blk.t100,
               out |-> process_block(blk.pipeline, blk.raw_matrix,
                                     blk.index_array, blk.wraps, blk.t100)]
    /\ UNCHANGED <<app, variant, plot_history, rc, tk, validated>>

NextBlock == ProcessBlock

SpecBlock == InitBlock /\ [][NextBlock]_vars

\* ------------------------------------------ specification: RMS of a series
\* 16-bit samples: the ends of the range, the values around which a square
\* leaves the 16-bit range, and values around the default thresholds
Int16Samples ==
    {-32768, -32767, -2000, -182, -181, -50, -1, 0, 1, 50, 181, 182, 256,
     2000, 32767}

\* series lengths: short ones, a phase row and an axis series
SeriesLengths ==
    (1..MaxCopies) \cup {PLOT_SAMPLE_COUNT, VIBRATION_GROUP_SIZE * PLOT_SAMPLE_COUNT}

\* a full-waveform dictionary is about to be given to one of the features
InitRms ==
    /\ InitApp
    /\ variant = "rms"
    /\ rc = RcIdle
    /\ tk = TkIdle
    /\ \E c \in Int16Samples, n \in SeriesLengths,
          feature \in {"vibration", "current"} :
          blk = [kind |-> "series", feature |-> feature, c |-> c, n |-> n]

ComputeFeature ==
    /\ variant = "rms"
    /\ blk.kind = "series"
    /\ LET series == [i \in 1..blk.n |-> blk.c]
           zeros  == [i \in 1..blk.n |-> 0]
       IN  blk' = [kind |-> "rms", feature |-> blk.feature, c |-> blk.c, n |-> blk.n,
                   value |-> IF blk.feature = "vibration"
                             THEN calculate_vibration_feature(
                                      [X |-> zeros, Y |-> zeros, Z |-> series])
                             ELSE calculate_current_feature(
                                      [A |-> series, B |-> series, C |-> series])]
    /\ UNCHANGED <<app, variant, plot_history, rc, tk, validated>>

NextRms == ComputeFeature

SpecRms == InitRms /\ [][NextRms]_vars

\* ------------------------- specification: two monitors on the same Z axis
\* A raw block whose Z rows alternate between +z and -z and whose phase rows
\* alternate between +c and -c, so that the RMS of the Z axis is z and the
\* RMS of every phase is c; the X and Y rows hold xy everywhere.
TwinMatrix(z, c, xy) ==
    [i \in 1..BLK_FULL_CHANNELS |-> [j \in 1..RowLen |->
        IF i <= 2 * GroupSize THEN xy
        ELSE IF i <= BLK_VIBRATION_CHANNELS THEN (IF j % 2 = 1 THEN z ELSE -z)
        ELSE IF i <= BLK_TOTAL_CHANNELS THEN (IF j % 2 = 1 THEN c ELSE -c)
        ELSE 0]]

\* the pointers of a block: xy_ptr for the X and Y rows, ptr for the others
TwinIndex(ptr, xy_ptr) ==
    [i \in 1..BLK_FULL_CHANNELS |-> IF i <= 2 * GroupSize THEN xy_ptr ELSE ptr]

\* what a cycle of data_process_gongkuang.py is given when the block read is
\* raw_matrix with index_array: the features are those of the full series
TwinInput(raw_matrix, index_array, wraps) ==
    LET full == demux_flatten(
                    continuous_data("gongkuang", raw_matrix, index_array, wraps))
    IN  [DefaultInput EXCEPT
            !.cur = calculate_current_feature(full).floor,
            !.vib = calculate_vibration_feature(full).floor]

\* both monitors have been started on an open port; the first block of
\* each had the wrong size, so that no cycle has classified yet
InitTwin ==
    /\ plc_conn = "open"
    /\ is_realtime_running = TRUE
    /\ sample_index = 0
    /\ latest_processed_data = None
    /\ cutting_state = "STOP"
    /\ state_history = <<>>
    /\ realtime_read_button = "disabled"
    /\ stop_read_button = "normal"
    /\ pending = 1
    /\ log = <<"started", "reshape_error">>
    /\ last = NotClassified("start")
    /\ run = [label |-> "none", len |-> 0]
    /\ save_calls = 0
    /\ plot_history = [vib |-> 0, cur_x |-> 0, cur_y |-> 0]
    /\ validated = [idle |-> float(DEFAULT_IDLE_THRESHOLD),
                    vib  |-> float(DEFAULT_VIB_THRESHOLD)]
    /\ variant = "gongkuang_twin"
    /\ rc = RcIdle
    /\ tk = TkIdle
    /\ blk = [kind |-> "twin", xy |-> <<0, 32767>>, e |-> Object("start")]

\* the timer callback of both monitors fires: the two blocks agree on the Z
\* rows, the phase rows and their pointers, and the threshold fields hold
\* the same texts; the X and Y rows and their pointers differ between them
TwinTimerFire ==
    /\ variant = "gongkuang_twin"
    /\ pending > 0
    /\ sample_index < MaxTwinCycles
    /\ \E z \in VibrationFeatures, c \in CurrentFeatures,
          ptr \in {0, 2}, xy \in {<<0, 32767>>, <<32767, 0>>} :
        \E block1 \in {TwinInput(TwinMatrix(z, c, xy[1]), TwinIndex(ptr, 1), TRUE)},
           block2 \in {TwinInput(TwinMatrix(z, c, xy[2]), TwinIndex(ptr, RowLen), TRUE)},
           tt \in ThresholdTexts :
            LET in1 == [block1 EXCEPT !.idle_text = tt[1], !.vib_text = tt[2]]
                in2 == [block2 EXCEPT !.idle_text = tt[1], !.vib_text = tt[2]]
            IN  /\ Return(realtime_monitor_loop(
                         [Object("timer") EXCEPT !.pending = pending - 1],
                         plc_conn, in1))
                /\ blk' = [kind |-> "twin", xy |-> xy,
                           e |-> realtime_monitor_loop(
                                    [blk.e EXCEPT !.pending = blk.e.pending - 1,
                                                  !.log = <<>>,
                                                  !.last = NotClassified("timer")],
                                    plc_conn, in2)]
    /\ UNCHANGED <<plc_conn, variant, plot_history, rc, tk, validated>>

NextTwin == TwinTimerFire

SpecTwin == InitTwin /\ [][NextTwin]_vars

\* ------------------ specification: one monitor under both axis layouts
\* A raw block whose Z rows hold a different value at every (row, column),
\* all close to base, and whose phase rows alternate between +c and -c.
LayoutMatrix(base, c) ==
    [i \in 1..BLK_FULL_CHANNELS |-> [j \in 1..RowLen |->
        IF i <= 2 * GroupSize THEN 0
        ELSE IF i <= BLK_VIBRATION_CHANNELS THEN base + 10 * (i - 2 * GroupSize) + j
        ELSE IF i <= BLK_TOTAL_CHANNELS THEN (IF j % 2 = 1 THEN c ELSE -c)
        ELSE 0]]

\* Z-axis values around the default vibration threshold
LayoutBases == {1900, 2100}

\* the full waveforms cut from the reconstructed rows in the given layout
LayoutFull(rows, layout) ==
    IF layout = "flatten" THEN demux_flatten(rows) ELSE demux_interleave(rows)

\* what a cycle of data_process_gongkuang.py is given when its full
\* waveforms are cut from the reconstructed rows in the given layout
LayoutInput(rows, layout) ==
    LET full == LayoutFull(rows, layout)
    IN  [DefaultInput EXCEPT
            !.cur = calculate_current_feature(full).floor,
            !.vib = calculate_vibration_feature(full).floor]

\* the monitor has been started on an open port; its first block had the
\* wrong size, so that no cycle has classified yet
InitLayout ==
    /\ plc_conn = "open"
    /\ is_realtime_running = TRUE
    /\ sample_index = 0
    /\ latest_processed_data = None
    /\ cutting_state = "STOP"
    /\ state_history = <<>>
    /\ realtime_read_button = "disabled"
    /\ stop_read_button = "normal"
    /\ pending = 1
    /\ log = <<"started", "reshape_error">>
    /\ last = NotClassified("start")
    /\ run = [label |-> "none", len |-> 0]
    /\ save_calls = 0
    /\ plot_history = [vib |-> 0, cur_x |-> 0, cur_y |-> 0]
    /\ validated = [idle |-> float(DEFAULT_IDLE_THRESHOLD),
                    vib  |-> float(DEFAULT_VIB_THRESHOLD)]
    /\ variant = "gongkuang_layout"
    /\ rc = RcIdle
    /\ tk = TkIdle
    /\ blk = [kind |-> "layout", z |-> <<<<>>, <<>>>>, e |-> Object("start")]

\* the timer callback fires: the cycle runs on the flatten layout, and next
\* to it on the interleave layout of the same reconstructed rows
LayoutTimerFire ==
    /\ variant = "gongkuang_layout"
    /\ pending > 0
    /\ sample_index < MaxTwinCycles
    /\ \E base \in LayoutBases, c \in CurrentFeatures, ptr \in {0, 2} :
        \E rows \in {continuous_data("gongkuang", LayoutMatrix(base, c),
                                      TwinIndex(ptr, ptr), TRUE)} :
        \E block1 \in {LayoutInput(rows, "flatten")},
           block2 \in {LayoutInput(rows, "interleave")},
           tt \in ThresholdTexts :
            LET in1 == [block1 EXCEPT !.idle_text = tt[1], !.vib_text = tt[2]]
                in2 == [block2 EXCEPT !.idle_text = tt[1], !.vib_text = tt[2]]
            IN  /\ Return(realtime_monitor_loop(
                         [Object("timer") EXCEPT !.pending = pending - 1],
                         plc_conn, in1))
                /\ blk' = [kind |-> "layout",
                           z |-> <<LayoutFull(rows, "flatten").Z,
                                   LayoutFull(rows, "interleave").Z>>,
                           e |-> realtime_monitor_loop(
                                    [blk.e EXCEPT !.pending = blk.e.pending - 1,
                                                  !.log = <<>>,
                                                  !.last = NotClassified("timer")],
                                    plc_conn, in2)]
    /\ UNCHANGED <<plc_conn, variant, plot_history, rc, tk, validated>>

NextLayout == LayoutTimerFire

SpecLayout == InitLayout /\ [][NextLayout]_vars

\* ------------------------- specification: the plot history caches
\* the cache limits of GUI.__init__ for blocks of GroupSize x RowLen samples
BLK_MAX_VIB_HISTORY_POINTS == HistoryCycles * GroupSize * RowLen
BLK_MAX_CURR_HISTORY_POINTS == HistoryCycles * RowLen

\* interval texts, as hundredths of a millisecond: negative, zero, rounding
\* to zero current samples, one sample, and the whole block
CacheIntervals == {-100, 0, 50, 100, 100 * RowLen}

\* the block read in the given call: every sample carries the number of the
\* call and its place in the block
CacheMatrix(call) ==
    [i \in 1..BLK_FULL_CHANNELS |-> [j \in 1..RowLen |->
        100 * call + (i - 1) * RowLen + j]]

\* GUI.process_data from the extraction of the increment on: the caches are
\* extended and trimmed, sample_index is advanced, and the increment is
\* reported. c holds the caches and sample_index on entry.
plot_update_caches(c, inc) ==
    LET vib_x == c.vib_x \o inc.data.X
        vib_y == c.vib_y \o inc.data.Y
        vib_z == c.vib_z \o inc.data.Z
        vib_over == Len(vib_x) > BLK_MAX_VIB_HISTORY_POINTS
        N == inc.n_cur
        \* np.arange(sample_index + 1, sample_index + N + 1)
        new_x_data == [i \in 1..(IF N > 0 THEN N ELSE 0) |-> c.sample_index + i]
        current_x == c.current_x \o new_x_data
        current_y == [i \in 1..BLK_CURRENT_CHANNELS |->
                        c.current_y[i] \o inc.data[<<"A", "B", "C">>[i]]]
        cur_over == Len(current_x) > BLK_MAX_CURR_HISTORY_POINTS
    IN  [vib_x |-> IF vib_over THEN SliceFrom(vib_x, -BLK_MAX_VIB_HISTORY_POINTS) ELSE vib_x,
         vib_y |-> IF vib_over THEN SliceFrom(vib_y, -BLK_MAX_VIB_HISTORY_POINTS) ELSE vib_y,
         vib_z |-> IF vib_over THEN SliceFrom(vib_z, -BLK_MAX_VIB_HISTORY_POINTS) ELSE vib_z,
         current_x |-> IF cur_over
                       THEN SliceFrom(current_x, -BLK_MAX_CURR_HISTORY_POINTS)
                       ELSE current_x,
         current_y |-> [i \in 1..BLK_CURRENT_CHANNELS |->
                          IF cur_over
                          THEN SliceFrom(current_y[i], -BLK_MAX_CURR_HISTORY_POINTS)
                          ELSE current_y[i]],
         sample_index |-> c.sample_index + N,
         new_x_data |-> new_x_data,
         N_inc_vib_points |-> Len(inc.data.X),
         N_inc_curr_points |-> N]

\* the object of plc_plot.py after __init__: the caches are empty
InitCaches ==
    /\ InitApp
    /\ variant = "plc_plot_caches"
    /\ rc = RcIdle
    /\ tk = TkIdle
    /\ blk = [kind |-> "caches", calls |-> 0, t100 |-> 0,
              c |-> [vib_x |-> <<>>, vib_y |-> <<>>, vib_z |-> <<>>,
                     current_x |-> <<>>, current_y |-> <<<<>>, <<>>, <<>>>>,
                     sample_index |-> 0, new_x_data |-> <<>>,
                     N_inc_vib_points |-> 0, N_inc_curr_points |-> 0],
              appended |-> [vib |-> <<<<>>, <<>>, <<>>>>, cur_x |-> <<>>,
                            cur_y |-> <<<<>>, <<>>, <<>>>>],
              appended_now |-> 0]

\* process_data runs on a block of the right size, the interval field
\* holding any number; blk.appended keeps every sample ever handed to
\* `extend`, blk.appended_now the number of samples this call appended to
\* each phase
PlotProcessBlock ==
    /\ variant = "plc_plot_caches"
    /\ blk.calls < MaxCacheCalls
    /\ \E t100 \in CacheIntervals :
        \E inc \in {incremental_interleave(
                        continuous_data("plc_plot", CacheMatrix(blk.calls + 1),
                                        TwinIndex(1, 1), TRUE), t100)} :
        \E c \in {plot_update_caches(blk.c, inc)} :
            /\ blk' = [kind |-> "caches", calls |-> blk.calls + 1, t100 |-> t100,
                       c |-> c,
                       appended |->
                          [vib |-> <<blk.appended.vib[1] \o inc.data.X,
                                     blk.appended.vib[2] \o inc.data.Y,
                                     blk.appended.vib[3] \o inc.data.Z>>,
                           cur_x |-> blk.appended.cur_x \o c.new_x_data,
                           cur_y |-> <<blk.appended.cur_y[1] \o inc.data.A,
                                       blk.appended.cur_y[2] \o inc.data.B,
                                       blk.appended.cur_y[3] \o inc.data.C>>],
                       appended_now |-> Len(inc.data.A)]
            /\ sample_index' = c.sample_index
    /\ UNCHANGED <<plc_conn, is_realtime_running, latest_processed_data,
                   cutting_state, state_history, realtime_read_button,
                   stop_read_button, pending, log, last, run, save_calls,
                   variant, plot_history, rc, tk, validated>>

NextCaches == PlotProcessBlock

SpecCaches == InitCaches /\ [][NextCaches]_vars

\* ------------------------------------- specification: the log widget
\* the largest LOG_LINE_NUM at which write_log_to_text still only inserts
LOG_LINE_LIMIT == 30

\* variant: a full widget is never relieved of its oldest line
write_log_to_text_no_evict(w, logmsg) ==
    IF w.LOG_LINE_NUM <= LOG_LINE_LIMIT
    THEN [log_text |-> Append(w.log_text, logmsg), LOG_LINE_NUM |-> w.LOG_LINE_NUM + 1]
    ELSE [log_text |-> Append(w.log_text, logmsg), LOG_LINE_NUM |-> w.LOG_LINE_NUM]

\* write_log_to_text: w holds the lines of the widget and the global
\* LOG_LINE_NUM; a message is one line; delete(1.0, 2.0) removes the first
\* line of the widget
write_log_to_text(w, logmsg) ==
    IF w.LOG_LINE_NUM <= LOG_LINE_LIMIT
    THEN [log_text |-> Append(w.log_text, logmsg), LOG_LINE_NUM |-> w.LOG_LINE_NUM + 1]
    ELSE [log_text |-> Append(SliceFrom(w.log_text, 1), logmsg),
          LOG_LINE_NUM |-> w.LOG_LINE_NUM]

\* GUI.delete_log of plc_plot.py: the widget is emptied, the counter reset,
\* and the clearing is logged
delete_log(w, logmsg) ==
    write_log_to_text([log_text |-> <<>>, LOG_LINE_NUM |-> 0], logmsg)

\* the window has been built: the widget is empty. Messages are numbered in
\* the order they are written.
InitLog ==
    /\ InitApp
    /\ variant = "log"
    /\ rc = RcIdle
    /\ tk = TkIdle
    /\ \E pipeline \in {"gongkuang", "plc_plot"} :
          blk = [kind |-> "log", pipeline |-> pipeline, op |-> "none", written |-> 0,
                 w |-> [log_text |-> <<>>, LOG_LINE_NUM |-> 0]]

\* some handler writes a message to the log
WriteLog ==
    /\ variant = "log"
    /\ blk.written < MaxLogWrites
    /\ blk' = [blk EXCEPT !.op = "write_log_to_text",
                          !.written = blk.written + 1,
                          !.w = write_log_to_text(blk.w, blk.written + 1)]
    /\ UNCHANGED <<app, variant, plot_history, rc, tk, validated>>

\* the user presses "clear log" (plc_plot.py)
DeleteLog ==
    /\ variant = "log"
    /\ blk.pipeline = "plc_plot"
    /\ blk.written < MaxLogWrites
    /\ blk' = [blk EXCEPT !.op = "delete_log",
                          !.written = blk.written + 1,
                          !.w = delete_log(blk.w, blk.written + 1)]
    /\ UNCHANGED <<app, variant, plot_history, rc, tk, validated>>

NextLog == WriteLog \/ DeleteLog

SpecLog == InitLog /\ [][NextLog]_vars

\* ================================================================ claims
H == STABILITY_CHECK_COUNT

\* number of entries of queue q equal to label x
RECURSIVE Occurrences(_, _)
Occurrences(q, x) ==
    IF q = <<>> THEN 0
    ELSE (IF Head(q) = x THEN 1 ELSE 0) + Occurrences(Tail(q), x)

\* the last n entries of q (all of q when it is shorter)
LastEntries(q, n) ==
    IF Len(q) <= n THEN q ELSE SubSeq(q, Len(q) - n + 1, Len(q))

\* number of transition messages in a handler's log
SwitchMessages(l) ==
    Occurrences(l, "switch_CUTTING") + Occurrences(l, "switch_IDLE")
        + Occurrences(l, "switch_STOP")

\* length of the current run of consecutive CUTTING instantaneous states
CuttingRun == IF run.label = "CUTTING" THEN run.len ELSE 0

\* every classification so far produced the instantaneous state x
AllLabels(x) == sample_index >= 1 /\ run.label = x /\ run.len = sample_index

\* ---- C1
\* the transition rules (a)..(e) as the specification lists them
C1_Rule(confirmed, queue) ==
    CASE confirmed # "CUTTING" /\ Occurrences(queue, "CUTTING") >= H -> "CUTTING"
      [] confirmed = "CUTTING" /\ Occurrences(queue, "IDLE") >= H -> "IDLE"
      [] OTHER -> IF Occurrences(queue, "STOP") >= H THEN "STOP"
                  ELSE IF Occurrences(queue, "IDLE") >= H THEN "IDLE"
                  ELSE confirmed

\* C1: in every classifying cycle the new confirmed state is the one the
\* prioritized rules (a)..(e) give for the previous confirmed state and the
\* label counts of the queue after the append.
C1_TransitionRules ==
    [][last'.classified =>
         cutting_state' = C1_Rule(cutting_state, state_history')]_vars

\* rule (d) has acted: five IDLE labels took the initial STOP directly to IDLE
C1_Witness ==
    /\ last.classified
    /\ sample_index = H
    /\ state_history = [i \in 1..H |-> "IDLE"]
    /\ cutting_state = "IDLE"

\* ---- C2
\* C2: while the confirmed state is not CUTTING, a CUTTING label that is the
\* k-th of its run leaves the confirmed state unchanged when k < H and sets
\* it to CUTTING when k = H.
C2_DebounceEnter ==
    [][(last'.classified /\ last'.label = "CUTTING" /\ cutting_state # "CUTTING") =>
         IF CuttingRun' < H
         THEN cutting_state' = cutting_state
         ELSE CuttingRun' = H /\ cutting_state' = "CUTTING"]_vars

\* the H-th CUTTING label of a run that started after other labels
C2_Witness ==
    /\ last.classified
    /\ sample_index > H
    /\ run = [label |-> "CUTTING", len |-> H]
    /\ cutting_state = "CUTTING"
    /\ Occurrences(log, "switch_CUTTING") = 1

\* ---- C3
\* C3: the confirmed state becomes CUTTING only at a tick whose label ends a
\* run of at least H consecutive CUTTING labels, so a non-CUTTING label
\* restarts the count.
C3_InterruptionRestarts ==
    [][(cutting_state # "CUTTING" /\ cutting_state' = "CUTTING") =>
         CuttingRun' >= H]_vars

\* an IDLE label inside a run of CUTTING labels: four CUTTING labels in the
\* window, confirmed state still STOP
C3_Witness ==
    /\ last.classified
    /\ state_history = <<"CUTTING", "CUTTING", "IDLE", "CUTTING", "CUTTING">>
    /\ cutting_state = "STOP"

\* ---- C4
\* C4 (as claimed): whenever the confirmed state changes from CUTTING to
\* another state, the queue holds H IDLE labels.
C4_LeaveNeedsIdle ==
    [][(cutting_state = "CUTTING" /\ cutting_state' # "CUTTING") =>
         Occurrences(state_history', "IDLE") = H]_vars

\* C4 (amended): whenever the confirmed state changes from CUTTING to another
\* state, the queue holds H labels equal to the new state: H IDLE labels when
\* it becomes IDLE, H STOP labels when it becomes STOP.
C4_LeaveNeedsFullWindow ==
    [][(cutting_state = "CUTTING" /\ cutting_state' # "CUTTING") =>
         /\ cutting_state' \in {"IDLE", "STOP"}
         /\ Occurrences(state_history', cutting_state') = H]_vars

\* the tick at which CUTTING was left for IDLE
C4_Witness ==
    /\ last.classified
    /\ Occurrences(log, "switch_IDLE") = 1
    /\ cutting_state = "IDLE"
    /\ save_calls > 0

\* ---- C5
\* C5: a handler writes exactly one transition message when it changes the
\* confirmed state and none when it does not.
C5_EdgeTriggered ==
    [][SwitchMessages(log') = IF cutting_state' # cutting_state THEN 1 ELSE 0]_vars

\* ---- C6
\* the instantaneous label as the specification defines it
C6_Label(currentFeature, vibrationFeature, idleThreshold, cuttingThreshold) ==
    CASE currentFeature < idleThreshold -> "STOP"
      [] currentFeature >= idleThreshold /\ vibrationFeature >= cuttingThreshold -> "CUTTING"
      [] OTHER -> "IDLE"

\* C6: the label of a classifying cycle is STOP when the current feature is
\* below the idle threshold, otherwise CUTTING when the vibration feature is
\* at least the cutting threshold, otherwise IDLE; it is a function of the
\* cycle's two features and the two thresholds in force only.
C6_InstantLabel ==
    last.classified =>
        last.label = C6_Label(latest_processed_data.cur, latest_processed_data.vib,
                              last.idle_thresh, last.vib_thresh)

\* both features exactly on their thresholds: the label is CUTTING
C6_Witness ==
    /\ last.classified
    /\ latest_processed_data.cur = last.idle_thresh
    /\ latest_processed_data.vib = last.vib_thresh
    /\ last.label = "CUTTING"

\* ---- C7
\* C7: the queue never holds more than H labels, holds min(n, H) labels after
\* n classifications, and each classification makes it the last H entries of
\* the old queue followed by the new label (the oldest label is evicted);
\* nothing else changes it.
C7_BoundedFifo ==
    /\ [](/\ Len(state_history) <= H
          /\ Len(state_history) = IF sample_index < H THEN sample_index ELSE H)
    /\ [][IF last'.classified
          THEN state_history' = LastEntries(Append(state_history, last'.label), H)
          ELSE state_history' = state_history]_vars

\* a full queue has just evicted its oldest label, which differed from the
\* label now at the front
C7_Witness ==
    /\ last.classified
    /\ sample_index = H + 2
    /\ state_history = <<"IDLE", "CUTTING", "STOP", "STOP", "IDLE">>

C9_CuttingOnly ==
    /\ last.saves \in {0, 1}
    /\ last.saves = 1 <=> (last.classified /\ last.ret = "CUTTING")
    /\ last.classified => last.ret = cutting_state
    /\ (sample_index = 0 \/ AllLabels("STOP")) =>
          (cutting_state = "STOP" /\ save_calls = 0)

\* five cycles with the current below the idle threshold
C9_Witness ==
    /\ last.classified
    /\ sample_index = H
    /\ AllLabels("STOP")
    /\ latest_processed_data.cur < last.idle_thresh
    /\ save_calls = 0

\* ---- C10
\* C10: while every classification so far had the label CUTTING, the
\* confirmed state is STOP and nothing is saved during cycles 1..H-1, and
\* from cycle H on the state is CUTTING and every cycle calls save once.
C10_EndToEndCutting ==
    AllLabels("CUTTING") =>
        IF sample_index < H
        THEN cutting_state = "STOP" /\ save_calls = 0
        ELSE /\ cutting_state = "CUTTING"
             /\ save_calls = sample_index - H + 1
             /\ last.classified => last.saves = 1

\* two cycles after the switch: three saves
C10_Witness ==
    /\ last.classified
    /\ AllLabels("CUTTING")
    /\ sample_index = H + 2
    /\ cutting_state = "CUTTING"
    /\ save_calls = 3

\* ------------------------------------------------------------ C11 .. C13
\* row rotated left by k: element i is row[(k+i) mod S], counting from 0
Rotation(row, k) ==
    [i \in 1..Len(row) |-> row[((k + i - 1) % Len(row)) + 1]]

\* C11 as stated: in every pipeline, for a pointer h in [0,S) the reconstructed
\* row is row[h:] ++ row[:h] (so its last element is row[(h-1) mod S] and for
\* h = 0 it is the input row).
C11_RotationAtPointer ==
    (rc.done /\ rc.ptr \in 0..(RowLen - 1)) =>
        /\ ~rc.raised
        /\ rc.out = Rotation(rc.row, rc.ptr)
        /\ rc.out[RowLen] = rc.row[((rc.ptr - 1) % RowLen) + 1]
        /\ (rc.ptr = 0 => rc.out = rc.row)

\* the index at which a pipeline splits the row for pointer h in [0,S)
C11_SplitIndex ==
    IF rc.pipeline = "plc_plot" THEN rc.ptr ELSE (rc.ptr - 1) % RowLen

\* C11 amended: for a pointer h in [0,S) the reconstructed row is
\* row[k:] ++ row[:k] with k = h in plc_plot.py and k = (h-1) mod S in
\* data_process.py and data_process_gongkuang.py; its last element is
\* row[(k-1) mod S], and it equals the input row exactly when k = 0 rotates
\* nothing (h = 0 in plc_plot.py, h = 1 in the other two).
C11_RotationPerPipeline ==
    (rc.done /\ rc.ptr \in 0..(RowLen - 1)) =>
        /\ ~rc.raised
        /\ rc.out = Rotation(rc.row, C11_SplitIndex)
        /\ rc.out[RowLen] = rc.row[((C11_SplitIndex - 1) % RowLen) + 1]
        /\ (C11_SplitIndex = 0 => rc.out = rc.row)

\* pointer 0 in data_process_gongkuang.py: the newest sample is moved to the
\* front, the result is not the input row
C11_Witness ==
    /\ rc.done
    /\ rc.pipeline = "gongkuang"
    /\ rc.ptr = 0
    /\ rc.out # rc.row
    /\ rc.out = Rotation(rc.row, RowLen - 1)

\* C12: for every 16-bit pointer value, every pipeline produces a row of
\* exactly S samples that is a cyclic rotation of the raw row, and the
\* assignment into the result matrix does not raise.
C12_ReconstructionTotal ==
    rc.done =>
        /\ ~rc.raised
        /\ Len(rc.out) = RowLen
        /\ \E k \in 0..(RowLen - 1) : rc.out = Rotation(rc.row, k)

\* the most negative pointer, whose decrement leaves the 16-bit range
C12_Witness ==
    /\ rc.done
    /\ rc.pipeline = "data_process"
    /\ rc.ptr = -32768
    /\ rc.wraps
    /\ rc.split = 32767
    /\ Len(rc.out) = RowLen

\* C13 as stated: in every pipeline the split index applied to the row lies
\* in [0,S); pointers below 0 become 0 and pointers of S or more become S-1.
C13_SplitClamped ==
    rc.done =>
        /\ rc.split \in 0..(RowLen - 1)
        /\ (rc.ptr < 0 => rc.split = 0)
        /\ (rc.ptr >= RowLen => rc.split = RowLen - 1)

\* ---- C14
\* C14: a cycle whose block has the wrong size leaves the confirmed state,
\* the history queue, sample_index, latest_processed_data and the plot
\* history caches as they were and saves nothing.
C14_ShapeMismatchFrame ==
    [][Occurrences(log', "reshape_error") > 0 =>
          /\ ~last'.classified
          /\ cutting_state' = cutting_state
          /\ state_history' = state_history
          /\ sample_index' = sample_index
          /\ latest_processed_data' = latest_processed_data
          /\ plot_history' = plot_history
          /\ save_calls' = save_calls
          /\ last'.saves = 0]_vars

\* plc_plot.py: a timer cycle met a block of the wrong size after two cycles
\* had filled the caches
C14_Witness ==
    /\ variant = "plc_plot"
    /\ last.op = "timer"
    /\ Occurrences(log, "reshape_error") = 1
    /\ plot_history = [vib |-> 200, cur_x |-> 20, cur_y |-> 20]
    /\ sample_index = 20
    /\ save_calls = 2

\* ------------------------------------------------------------ C15 .. C20
\* the latest handler ran the body of realtime_monitor_loop
InLoop == last.op \in {"start", "timer"}

\* C15: a cycle whose atomic fetch failed leaves the confirmed state, the
\* history queue, sample_index and the latest block as they were, and saves
\* nothing.
C15_FetchFailureFrame ==
    [][Occurrences(log', "read_failed") > 0 =>
          /\ ~last'.classified
          /\ cutting_state' = cutting_state
          /\ state_history' = state_history
          /\ sample_index' = sample_index
          /\ latest_processed_data' = latest_processed_data
          /\ save_calls' = save_calls
          /\ last'.saves = 0]_vars

\* a timer cycle whose read failed, with a full queue and a confirmed IDLE
C15_Witness ==
    /\ last.op = "timer"
    /\ Occurrences(log, "read_failed") = 1
    /\ Len(state_history) = H
    /\ cutting_state = "IDLE"
    /\ sample_index >= H
    /\ latest_processed_data # None

\* C16 as stated: a cycle that ends in a transport failure or a shape
\* mismatch only skips that cycle: the monitor is still running and the next
\* tick is scheduled.
C16_FaultSkipsCycle ==
    (InLoop /\ (Occurrences(log, "read_failed") > 0
                 \/ Occurrences(log, "reshape_error") > 0)) =>
        (is_realtime_running /\ pending >= 1)

\* C17 as stated: a cycle that found a non-numeric interval field warns and
\* schedules the next tick.
C17_InvalidIntervalKeepsTicking ==
    (InLoop /\ Occurrences(log, "interval_invalid") > 0) =>
        (is_realtime_running /\ pending >= 1)

\* C19 as stated: no execution of realtime_monitor_loop begins while another
\* is in progress: at most one activation of the loop is past its running
\* check at any time.
C19_CyclesNeverOverlap ==
    Cardinality({i \in LoopFrames : tk.stack[i].pc = "update"}) <= 1

\* C20 as stated: at most one realtime_monitor_loop callback is pending in
\* the timer queue.
C20_SingleTickSource ==
    pending <= 1

\* ---- C18
\* the threshold fields read by the latest classification
IdleField == last.fields[1]
VibField == last.fields[2]

\* C18 as stated: a non-numeric threshold field is replaced by the value that
\* field last held as a number, with a warning; the cycle is classified and
\* its label appended; a numeric field is used as typed.
C18_LastValidatedFallback ==
    [][last'.classified =>
          /\ last'.idle_thresh = IF RaisesValueError(last'.fields[1])
                                 THEN validated.idle ELSE float(last'.fields[1])
          /\ last'.vib_thresh = IF RaisesValueError(last'.fields[2])
                                THEN validated.vib ELSE float(last'.fields[2])
          /\ (RaisesValueError(last'.fields[1]) \/ RaisesValueError(last'.fields[2]))
                 => Occurrences(log', "threshold_invalid") = 1
          /\ state_history'[Len(state_history')] = last'.label]_vars

\* C18 amended: when either threshold field is non-numeric, both thresholds
\* are the built-in defaults (50 and 2000), whatever the other field holds and
\* whatever was used before; a warning is written, the cycle is classified
\* with the defaults and its label appended. With two numeric fields both are
\* used as typed and no warning is written.
C18_BothDefaults ==
    [][last'.classified =>
          /\ IF RaisesValueError(last'.fields[1]) \/ RaisesValueError(last'.fields[2])
             THEN /\ last'.idle_thresh = 50
                  /\ last'.vib_thresh = 2000
                  /\ Occurrences(log', "threshold_invalid") = 1
             ELSE /\ last'.idle_thresh = float(last'.fields[1])
                  /\ last'.vib_thresh = float(last'.fields[2])
                  /\ Occurrences(log', "threshold_invalid") = 0
          /\ state_history'[Len(state_history')] = last'.label
          /\ last'.label =
                IF latest_processed_data'.cur >= last'.idle_thresh
                THEN (IF latest_processed_data'.vib >= last'.vib_thresh
                      THEN "CUTTING" ELSE "IDLE")
                ELSE "STOP"]_vars

\* the idle field is not a number while the vibration field holds 2500, which
\* was also used by an earlier cycle: the cycle classifies with 50 and 2000
C18_Witness ==
    /\ last.classified
    /\ IdleField = "abc"
    /\ VibField = "2500"
    /\ validated.vib = 2500
    /\ validated.idle = 10
    /\ last.idle_thresh = 50
    /\ last.vib_thresh = 2000
    /\ Occurrences(log, "threshold_invalid") = 1
    /\ Len(state_history) >= 2

\* ---- C21
\* C21: a timer callback that fires while the monitor is stopped does nothing:
\* it classifies and saves nothing, writes no message, leaves the classifier
\* state, the counters and the caches as they were and schedules no callback.
C21_StoppedCallbackIdle ==
    [][(last'.op = "timer" /\ ~is_realtime_running) =>
          /\ ~last'.classified
          /\ last'.saves = 0
          /\ log' = <<>>
          /\ cutting_state' = cutting_state
          /\ state_history' = state_history
          /\ sample_index' = sample_index
          /\ latest_processed_data' = latest_processed_data
          /\ plot_history' = plot_history
          /\ save_calls' = save_calls
          /\ ~is_realtime_running'
          /\ pending' = pending - 1]_vars

\* the callback left over by a stopped monitor has fired and the timer queue
\* is empty
C21_Witness ==
    /\ variant = "gongkuang"
    /\ last.op = "timer"
    /\ log = <<>>
    /\ ~is_realtime_running
    /\ realtime_read_button = "normal"
    /\ pending = 0
    /\ sample_index >= 1

\* ------------------------------------------------------------ C22 .. C23
\* clamp(x, lo, hi)
Clamp(x, lo, hi) == IF x < lo THEN lo ELSE IF x > hi THEN hi ELSE x

IsWindow == blk.kind = "window"

\* C22: for every configured interval, zero, negative and fractional ones
\* included, the incremental window of each signal family has length
\* clamp(round(intervalMs x rate / 1000), 0, len(series)), with 10 samples
\* per millisecond for a vibration axis and 1 for a current phase.
C22_WindowLength ==
    IsWindow =>
        /\ blk.lengths.vib_len =
             Clamp(RoundDiv(blk.t100 * VIB_SAMPLES_PER_MS, 100), 0,
                   VIBRATION_GROUP_SIZE * PLOT_SAMPLE_COUNT)
        /\ blk.lengths.cur_len =
             Clamp(RoundDiv(blk.t100 * CURR_SAMPLES_PER_MS, 100), 0,
                   PLOT_SAMPLE_COUNT)

\* C23: with an interval of 10 ms the vibration window holds 100 samples per
\* axis and the current window 10 samples per phase; with every interval
\* above 100 ms the window is the entire series, 1000 vibration samples per
\* axis and 100 current samples per phase.
C23_DefaultAndWholeWindow ==
    IsWindow =>
        /\ blk.t100 = 1000 =>
              blk.lengths.vib_len = 100 /\ blk.lengths.cur_len = 10
        /\ blk.t100 > 10000 =>
              blk.lengths.vib_len = 1000 /\ blk.lengths.cur_len = 100

C23_Witness ==
    /\ IsWindow
    /\ blk.pipeline = "gongkuang"
    /\ blk.t100 = 20000
    /\ blk.lengths.n_cur = 100
    /\ blk.lengths.vib_len = 1000

\* ------------------------------------------------------------ C24 .. C26
IsBlock == blk.kind = "block"
AxisNames == {"X", "Y", "Z"}
PhaseNames == {"A", "B", "C"}
\* 0-based number of the first row of an axis, and of the row of a phase
AxisBase(a) == IF a = "X" THEN 0 ELSE IF a = "Y" THEN GroupSize ELSE 2 * GroupSize
PhaseRow(ph) ==
    3 * GroupSize + (IF ph = "A" THEN 0 ELSE IF ph = "B" THEN 1 ELSE 2)

\* the last n elements of series q, in order
Trailing(q, n) == [i \in 1..n |-> q[Len(q) - n + i]]

\* length of series[-n:] for a series of length len
SliceLength(n, len) ==
    IF n = 0 THEN len
    ELSE IF n > 0 THEN (IF n > len THEN len ELSE n)
    ELSE (IF -n > len THEN 0 ELSE len + n)

\* C24 as stated: in every pipeline that extracts an incremental window,
\* each axis and phase incremental series is the last N_inc elements, in
\* order, of the full series of the same axis or phase.
C24_TrailingSlice ==
    (IsBlock /\ blk.out.has_inc) =>
        /\ \A a \in AxisNames :
              blk.out.inc.data[a] = LastEntries(blk.out.full[a], blk.out.inc.n_vib)
        /\ \A ph \in PhaseNames :
              blk.out.inc.data[ph] = LastEntries(blk.out.full[ph], blk.out.inc.n_cur)

\* C24 amended: plc_plot.py cuts series[-N:] from every interleaved axis and
\* every phase; data_process_gongkuang.py cuts row[-N:] from every phase and
\* builds an axis increment from the windows of its G rows one after another,
\* inc[k*w + j] = full[k*S + (S - w) + j]; series[-N:] is the last N elements
\* for 0 < N <= length, the whole series for N = 0 and the series without
\* its first |N| elements for N < 0.
C24_WindowPerPipeline ==
    (IsBlock /\ blk.out.has_inc) =>
        LET full  == blk.out.full
            inc   == blk.out.inc
            w_cur == SliceLength(inc.n_cur, RowLen)
            w_vib == SliceLength(inc.n_vib, GroupSize * RowLen)
        IN  /\ \A ph \in PhaseNames : inc.data[ph] = Trailing(full[ph], w_cur)
            /\ blk.pipeline = "plc_plot" =>
                  \A a \in AxisNames : inc.data[a] = Trailing(full[a], w_vib)
            /\ blk.pipeline = "gongkuang" =>
                  \A a \in AxisNames :
                     /\ Len(inc.data[a]) = GroupSize * w_cur
                     /\ \A k \in 0..(GroupSize - 1), j \in 0..(w_cur - 1) :
                           inc.data[a][k * w_cur + j + 1]
                              = full[a][k * RowLen + (RowLen - w_cur) + j + 1]

C24_Witness ==
    /\ IsBlock
    /\ blk.pipeline = "gongkuang"
    /\ blk.out.inc.n_cur = 2
    /\ Len(blk.out.inc.data["Z"]) = 2 * GroupSize
    /\ blk.out.inc.data["Z"] # LastEntries(blk.out.full["Z"], 2 * GroupSize)
    /\ blk.out.inc.data["C"] = LastEntries(blk.out.full["C"], 2)

\* C25: flatten demultiplexing: axis[k*S + j] = row_(base+k)[j] with length
\* G x S for the axes X, Y, Z based at rows 0, G, 2G; the three rows after
\* them are the phases A, B, C unchanged with length S; and the rows of the
\* raw block beyond the used ones never influence the output.
C25_FlattenDemux ==
    (IsBlock /\ blk.pipeline \in {"gongkuang", "data_process"}) =>
        LET rows == blk.out.rows
            full == blk.out.full
            blanked == [i \in 1..BLK_FULL_CHANNELS |->
                          IF i > BLK_TOTAL_CHANNELS THEN [j \in 1..RowLen |-> 0]
                          ELSE blk.raw_matrix[i]]
        IN  /\ \A a \in AxisNames :
                 /\ Len(full[a]) = GroupSize * RowLen
                 /\ \A k \in 0..(GroupSize - 1), j \in 0..(RowLen - 1) :
                       full[a][k * RowLen + j + 1] = rows[AxisBase(a) + k + 1][j + 1]
            /\ \A ph \in PhaseNames : full[ph] = rows[PhaseRow(ph) + 1]
            /\ \A ph \in PhaseNames : Len(full[ph]) = RowLen
            /\ Len(rows) = BLK_TOTAL_CHANNELS
            /\ blk.out = process_block(blk.pipeline, blanked, blk.index_array,
                                       blk.wraps, blk.t100)

C25_Witness ==
    /\ IsBlock
    /\ blk.pipeline = "data_process"
    /\ blk.raw_matrix[BLK_FULL_CHANNELS][1] = 99
    /\ blk.raw_matrix[2][1] # blk.raw_matrix[1][1]
    /\ blk.index_array[1] = 1
    /\ blk.out.full["Z"][GroupSize * RowLen] = 3 * GroupSize * RowLen
    /\ blk.out.full["A"][1] = 3 * GroupSize * RowLen + 1

\* C26: interleave demultiplexing: axis[j*G + k] = row_(base+k)[j] for every
\* sample index j in [0, S) and channel k in [0, G), with length G x S.
C26_InterleaveDemux ==
    (IsBlock /\ blk.pipeline = "plc_plot") =>
        \A a \in AxisNames :
            /\ Len(blk.out.full[a]) = GroupSize * RowLen
            /\ \A j \in 0..(RowLen - 1), k \in 0..(GroupSize - 1) :
                  blk.out.full[a][j * GroupSize + k + 1]
                     = blk.out.rows[AxisBase(a) + k + 1][j + 1]

C26_Witness ==
    /\ IsBlock
    /\ blk.pipeline = "plc_plot"
    /\ blk.raw_matrix[2][1] # blk.raw_matrix[1][1]
    /\ blk.index_array[1] = 0
    /\ blk.out.full["X"][2] = RowLen + 1
    /\ blk.out.full["X"][GroupSize + 1] = 2

\* ---- C27
Abs(x) == IF x < 0 THEN -x ELSE x

\* C27: for every 16-bit sample c and every n >= 1, the RMS that
\* calculate_vibration_feature and calculate_current_feature compute for a
\* series of n copies of c is abs(c) exactly, and it is never negative.
C27_RmsOfCopies ==
    blk.kind = "rms" =>
        /\ ~blk.value.nan
        /\ blk.value.exact
        /\ blk.value.floor = Abs(blk.c)
        /\ blk.value.floor >= 0

C27_Witness ==
    /\ blk.kind = "rms"
    /\ blk.feature = "vibration"
    /\ blk.c = -32768
    /\ blk.n = VIBRATION_GROUP_SIZE * PLOT_SAMPLE_COUNT
    /\ blk.value.floor = 32768

\* ---- C28
IsTwin == blk.kind = "twin"

\* C28: two runs of the classifier pipeline that are given, cycle by cycle,
\* the same Z rows and phase rows with their pointers and the same
\* thresholds, but X and Y rows and pointers of their own, produce the same
\* instantaneous label and the same confirmed state in every cycle.
C28_OnlyZDrivesVibration ==
    IsTwin =>
        /\ blk.e.last.label = last.label
        /\ blk.e.last.ret = last.ret
        /\ blk.e.last.classified = last.classified
        /\ blk.e.cutting_state = cutting_state
        /\ blk.e.state_history = state_history
        /\ blk.e.sample_index = sample_index

C28_Witness ==
    /\ IsTwin
    /\ blk.xy = <<0, 32767>>
    /\ last.classified
    /\ last.label = "CUTTING"
    /\ latest_processed_data = [cur |-> 50, vib |-> 2000]
    /\ blk.e.latest_processed_data = [cur |-> 50, vib |-> 2000]
    /\ cutting_state = "CUTTING"
    /\ blk.e.cutting_state = "CUTTING"

\* ---- C29
\* C29: a cycle whose file write failed has classified, keeps the confirmed
\* state and the queue of that classification and the incremented
\* sample_index, and schedules the next tick.
C29_SaveFailureContained ==
    [][Occurrences(log', "save_failed") > 0 =>
          /\ last'.classified
          /\ last'.saves = 1
          /\ cutting_state' = last'.ret
          /\ cutting_state' = C1_Rule(cutting_state, state_history')
          /\ state_history'[Len(state_history')] = last'.label
          /\ sample_index' = sample_index + 1
          /\ is_realtime_running'
          /\ pending' = IF last'.op = "timer" THEN pending ELSE pending + 1]_vars

\* a timer cycle in the CUTTING state could not write its file
C29_Witness ==
    /\ last.op = "timer"
    /\ Occurrences(log, "save_failed") = 1
    /\ Occurrences(log, "cycle_save_failed") = 1
    /\ cutting_state = "CUTTING"
    /\ is_realtime_running
    /\ pending >= 1

\* ---- C30
\* the queue holds H equal labels
Uniform(q) == Len(q) = H /\ \A i \in 1..Len(q) : q[i] = q[1]

\* C30: after a classification the confirmed state is X when the queue holds
\* H labels all equal to X and is unchanged otherwise; it is STOP while the
\* queue holds fewer than H labels, and it is the label of the current run
\* whenever that run is at least H long.
C30_UniformWindowMachine ==
    /\ [][last'.classified =>
             IF Uniform(state_history')
             THEN cutting_state' = state_history'[1]
             ELSE cutting_state' = cutting_state]_vars
    /\ [](Len(state_history) < H => cutting_state = "STOP")
    /\ [](run.len >= H => cutting_state = run.label)

\* five CUTTING labels followed by five STOP labels
C30_Witness ==
    /\ last.classified
    /\ sample_index = 2 * H
    /\ Uniform(state_history)
    /\ state_history[1] = "STOP"
    /\ cutting_state = "STOP"
    /\ save_calls = H

\* ---- C31
\* C31 as stated: the stop handler and the start handler both leave the
\* confirmed state and the history queue unchanged.
C31_StartStopLeaveEvidence ==
    [][last'.op \in {"start", "stop"} =>
          cutting_state' = cutting_state /\ state_history' = state_history]_vars

\* C31 amended: the stop handler leaves the confirmed state and the history
\* queue unchanged; the start handler resets neither and runs the first
\* cycle at once: when that cycle classifies, its label is appended to the
\* queue kept from before the stop (the oldest entry leaving a full queue)
\* and the confirmed state follows the transition rules from the state kept
\* from before the stop; otherwise both are unchanged.
C31_EvidenceSurvivesRestart ==
    [][/\ last'.op = "stop" =>
            cutting_state' = cutting_state /\ state_history' = state_history
       /\ last'.op = "start" =>
            IF last'.classified
            THEN /\ state_history' =
                       LastEntries(Append(state_history, last'.label), H)
                 /\ cutting_state' = C1_Rule(cutting_state, state_history')
            ELSE cutting_state' = cutting_state /\ state_history' = state_history
      ]_vars

\* the start handler confirmed CUTTING in its first cycle: the other H - 1
\* labels of the queue were recorded before the stop
C31_Witness ==
    /\ last.op = "start"
    /\ last.classified
    /\ Occurrences(log, "switch_CUTTING") = 1
    /\ cutting_state = "CUTTING"
    /\ Uniform(state_history)

\* ---- C32
\* C32: for every row of length S and every pointer p in [0, S], the
\* reconstruction of data_process.py and data_process_gongkuang.py
\* (row[p-1:] ++ row[:p-1]) equals the reconstruction of plc_plot.py applied
\* with the pointer (p-1) mod S.
C32_OneSampleRotation ==
    (rc.done /\ rc.pipeline \in {"data_process", "gongkuang"}
             /\ rc.ptr \in 0..RowLen) =>
        rc.out = reconstruct("plc_plot", rc.row, (rc.ptr - 1) % RowLen, rc.wraps).out

\* pointer 0: the other convention has to be applied with pointer S - 1
C32_Witness ==
    /\ rc.done
    /\ rc.pipeline = "data_process"
    /\ rc.ptr = 0
    /\ rc.row = <<0, 1, 2, 2>>
    /\ rc.out = <<2, 0, 1, 2>>
    /\ rc.out = reconstruct("plc_plot", rc.row, RowLen - 1, rc.wraps).out
    /\ rc.out # reconstruct("plc_plot", rc.row, rc.ptr, rc.wraps).out

\* ---- C33
IsLayout == blk.kind = "layout"

\* the values of a series
ValuesOf(q) == {q[i] : i \in 1..Len(q)}

\* C33: for the same reconstructed rows the flatten and the interleave
\* Z-axis series are permutations of each other; they have the same length
\* and sum of squares and the same vibration RMS feature, and the cycle
\* yields the same instantaneous label and the same confirmed state.
C33_LayoutIndependentVerdict ==
    IsLayout =>
        /\ Len(blk.z[1]) = Len(blk.z[2])
        /\ \A v \in ValuesOf(blk.z[1]) \cup ValuesOf(blk.z[2]) :
              Occurrences(blk.z[1], v) = Occurrences(blk.z[2], v)
        /\ (blk.z[1] # <<>> =>
              /\ mean_square(blk.z[1]) = mean_square(blk.z[2])
              /\ rms(blk.z[1]) = rms(blk.z[2]))
        /\ blk.e.latest_processed_data = latest_processed_data
        /\ blk.e.last.label = last.label
        /\ blk.e.last.ret = last.ret
        /\ blk.e.cutting_state = cutting_state
        /\ blk.e.state_history = state_history

C33_Witness ==
    /\ IsLayout
    /\ blk.z[1] # blk.z[2]
    /\ last.classified
    /\ last.label = "CUTTING"
    /\ latest_processed_data.vib >= 2000
    /\ cutting_state = "CUTTING"
    /\ blk.e.cutting_state = "CUTTING"

\* ------------------------------------------------------------ C34 .. C35
IsCaches == blk.kind = "caches"

\* C34: after every call of process_data, for every configured interval,
\* each vibration history has at most MAX_VIB_HISTORY_POINTS entries and
\* current_x_history and each current_y_history[i] have at most
\* MAX_CURR_HISTORY_POINTS entries, and each cache holds the most recently
\* appended samples in order.
C34_CachesBounded ==
    IsCaches =>
        /\ \A a \in 1..3 :
              LET cache == <<blk.c.vib_x, blk.c.vib_y, blk.c.vib_z>>[a]
              IN  /\ Len(cache) <= BLK_MAX_VIB_HISTORY_POINTS
                  /\ cache = LastEntries(blk.appended.vib[a], BLK_MAX_VIB_HISTORY_POINTS)
        /\ Len(blk.c.current_x) <= BLK_MAX_CURR_HISTORY_POINTS
        /\ blk.c.current_x = LastEntries(blk.appended.cur_x, BLK_MAX_CURR_HISTORY_POINTS)
        /\ \A i \in 1..BLK_CURRENT_CHANNELS :
              /\ Len(blk.c.current_y[i]) <= BLK_MAX_CURR_HISTORY_POINTS
              /\ blk.c.current_y[i] =
                    LastEntries(blk.appended.cur_y[i], BLK_MAX_CURR_HISTORY_POINTS)

\* C35: after any sequence of process_data calls with any configured
\* interval, current_x_history is as long as every current_y_history[i], the
\* reported N_inc_curr_points is the number of samples the call appended to
\* each phase, and sample_index is the number of samples appended to each
\* phase so far.
C35_CurrentCachesAligned ==
    IsCaches =>
        /\ \A i \in 1..BLK_CURRENT_CHANNELS :
              Len(blk.c.current_x) = Len(blk.c.current_y[i])
        /\ (blk.calls > 0 => blk.c.N_inc_curr_points = blk.appended_now)
        /\ \A i \in 1..BLK_CURRENT_CHANNELS :
              sample_index = Len(blk.appended.cur_y[i])

\* ---- C36
\* C36: when start_realtime_monitor is called while the connection is absent
\* or not open, is_realtime_running stays false, no timer callback is
\* scheduled, no fetch is attempted (the handler only logs the request to
\* open the port: nothing is read, processed or saved) and the button states
\* are unchanged.
C36_StartNeedsConnection ==
    [][(last'.op = "start" /\ plc_conn # "open") =>
          /\ ~is_realtime_running /\ ~is_realtime_running'
          /\ pending' = pending
          /\ log' = <<"open_port_first">>
          /\ ~last'.classified /\ last'.saves = 0
          /\ sample_index' = sample_index
          /\ save_calls' = save_calls
          /\ plot_history' = plot_history
          /\ latest_processed_data' = latest_processed_data
          /\ realtime_read_button' = realtime_read_button
          /\ stop_read_button' = stop_read_button]_vars

C36_Witness ==
    /\ variant = "plc_plot"
    /\ last.op = "start"
    /\ plc_conn = "None"
    /\ log = <<"open_port_first">>
    /\ ~is_realtime_running
    /\ pending = 0
    /\ realtime_read_button = "normal"

\* ---- C37
IsLog == blk.kind = "log"

\* C37: after any sequence of write_log_to_text and delete_log calls the
\* log widget holds at most 31 message lines; a message written to a widget
\* that is not full is added and evicts nothing, and a message written to a
\* full widget evicts exactly the oldest line.
C37_LogSlidingWindow ==
    /\ [](IsLog => Len(blk.w.log_text) <= 31)
    /\ [][(IsLog /\ blk'.op = "write_log_to_text") =>
            IF Len(blk.w.log_text) < 31
            THEN blk'.w.log_text = Append(blk.w.log_text, blk'.written)
            ELSE blk'.w.log_text = Append(Tail(blk.w.log_text), blk'.written)]_vars
    /\ [][(IsLog /\ blk'.op = "delete_log") =>
            blk'.w.log_text = <<blk'.written>>]_vars

\* the widget is full for the second time, after having been cleared, and
\* has evicted its oldest line since
C37_Witness ==
    /\ IsLog
    /\ blk.pipeline = "plc_plot"
    /\ blk.op = "write_log_to_text"
    /\ Len(blk.w.log_text) = 31
    /\ blk.w.log_text[1] = 4
    /\ blk.w.log_text[31] = 34
    /\ blk.written = 34

====
